---- MODULE Spec2Model ----
(***************************************************************************)
(* The evidence ledger of sovereign_recursion (ledger.py): an append-only  *)
(* JSONL file with a global hash chain and one hash chain per layer,       *)
(* written by independent processes under an exclusive file lock, and its  *)
(* integrity check verify().                                               *)
(*                                                                         *)
(* The ledger file is a sequence of text lines plus a flag saying whether  *)
(* the last line is terminated by a newline.  A line is modelled by what   *)
(* json.loads makes of it: blank, not JSON ("garbage"), JSON that is not   *)
(* an object ("scalar"), or an object with the entry's keys.  SHA-256 is   *)
(* modelled as a collision-free function: the digest of a text is the text *)
(* itself under a "sha256" tag, so two digests are equal exactly when the  *)
(* canonical texts are.                                                    *)
(*                                                                         *)
(* Spec        two writer processes and a reader on a fresh ledger.        *)
(* SpecEdited  one writer, a reader and one edit of the file from outside. *)
(* SpecAnyFile one writer and readers on a file in any condition.          *)
(* SpecNoLock  a writer whose platform has no file lock.                   *)
(* SpecFair    two writers under fair scheduling, appends that raise.      *)
(*                                                                         *)
(* The loop runner (loop_runner.py) and the engine (recursion_engine.py):  *)
(* SpecClassify one attempt classified under a loaded policy.              *)
(* SpecLoop     main of the loop runner over a scripted engine.            *)
(* SpecPolicy   ClassificationPolicy.load of a policy file.                *)
(* SpecParse    _parse_run_report of captured output.                      *)
(* SpecScore    compute_sovereign_score of a dict of results.              *)
(* SpecCheckers the check_* functions, each on its own.                    *)
(* SpecEngine   one run of the engine's main on a ledger file.             *)
(***************************************************************************)
EXTENDS Integers, Sequences, FiniteSets, TLC

\* ------------------------------------------------------------------ bounds

\* Successful appends a behaviour may start (the file never grows past it).
MaxAppends == 3

\* Lines of the arbitrary file the corrupted-ledger specification starts from.
MaxLines == 2

\* ------------------------------------------------------------ value domains

Writers == {"w1", "w2"}
NoWriter == "nobody"

\* A Python value that is not a str (None, 5, ...), where a str is expected.
NonStr == "<non-str>"
\* A data argument that is not a dict (a list, a string, None).
NotDict == "<not-a-dict>"
\* proof=None.
NoProof == "<none>"
\* A dict payload json.dumps cannot write, such as {"a": set()}.
Unserialisable == "{a:set()}"

\* The arguments append is called with: every valid combination, and for each
\* check of the validation the calls that fail it alone.
Layers == {"A", "B"}
Types == {"check"}
Payloads == {"{1:x}"}
ValidArgs ==
    [layer : Layers, event_type : Types, data : Payloads, proof : {NoProof}]
    \cup [layer : {"B"}, event_type : Types, data : Payloads, proof : {"pf"}]
InvalidArgs ==
    [layer : {"", NonStr}, event_type : Types, data : Payloads, proof : {NoProof}]
    \cup [layer : {"A"}, event_type : {"", NonStr}, data : Payloads, proof : {NoProof}]
    \cup [layer : {"A"}, event_type : Types, data : {NotDict}, proof : {NoProof}]
CallArgs == ValidArgs \cup InvalidArgs

\* Hashes are tuples.  "" (the genesis previous hash) is the empty tuple.
EmptyStr == <<>>
\* A JSON value that is not a string, where a hash is expected.
NonStrHash == <<NonStr>>
\* The key is not in the object at all.
AbsentKey == <<"<absent>">>
Absent == "<absent>"

\* utc_iso() / time.time(): no operation reads the clock back, so every entry
\* carries the same instant (equal timestamps are the hardest case for telling
\* two entries apart).
Clock == "t0"
EngineVersion == "recursion-v1"

\* ---------------------------------------------------------- serialisation

\* What json.dumps writes for a dict payload and json.loads reads back: JSON
\* object keys are strings, so the int key of {1: "x"} comes back as "1".
JsonData(data) == IF data = "{1:x}" THEN "{'1':x}" ELSE data

\* LedgerEntry.to_dict before the hash is set.  The "proof" key is left out
\* when proof is None.
ToDict(e) ==
    [data |-> e.data,
     engine_version |-> e.engine_version,
     layer |-> e.layer,
     layer_previous_hash |-> e.layer_previous_hash,
     previous_hash |-> e.previous_hash,
     proof |-> IF e.proof = NoProof THEN Absent ELSE e.proof,
     ts |-> e.ts,
     type |-> e.event_type]

\* Variant: the text hashed is the repr of the in-memory dict, int keys kept,
\* not the JSON text that goes to the file.
CanonicalRepr(d) ==
    <<d.data, d.engine_version, d.layer, d.layer_previous_hash,
      d.previous_hash, d.proof, d.ts, d.type>>

\* _canonical_json of an object without its "hash" key: the text, as the tuple
\* of its values in sorted key order, the payload as JSON writes it.
CanonicalJson(d) ==
    <<JsonData(d.data), d.engine_version, d.layer, d.layer_previous_hash,
      d.previous_hash, d.proof, d.ts, d.type>>

\* _sha256_text.
Sha256(text) == <<"sha256", text>>

\* One line of the file as json.loads sees it.  kind: "obj" a JSON object,
\* "garbage" not JSON, "scalar" JSON that is not an object, "blank" whitespace.
\* ObjLine is the line _canonical_json(entry.to_dict()) writes for d with hash h.
ObjLine(d, h) ==
    [kind |-> "obj", data |-> JsonData(d.data), engine_version |-> d.engine_version,
     layer |-> d.layer, layer_previous_hash |-> d.layer_previous_hash,
     previous_hash |-> d.previous_hash, proof |-> d.proof, ts |-> d.ts,
     type |-> d.type, hash |-> h]

OtherLine(kind) ==
    [kind |-> kind, data |-> Absent, engine_version |-> Absent,
     layer |-> Absent, layer_previous_hash |-> AbsentKey,
     previous_hash |-> AbsentKey, proof |-> Absent, ts |-> Absent,
     type |-> Absent, hash |-> AbsentKey]

\* The object of a line without its "hash" key (obj_copy in verify).
ObjCopy(line) ==
    [data |-> line.data, engine_version |-> line.engine_version,
     layer |-> line.layer, layer_previous_hash |-> line.layer_previous_hash,
     previous_hash |-> line.previous_hash, proof |-> line.proof,
     ts |-> line.ts, type |-> line.type]

\* isinstance(x, str) for a hash-valued and for a text-valued key.
IsStrHash(h) == h # NonStrHash /\ h # AbsentKey
IsStrText(s) == s # NonStr /\ s # Absent

\* obj.get(key, "") for a hash-valued key.
GetOrEmpty(h) == IF h = AbsentKey THEN EmptyStr ELSE h

\* ------------------------------------------------------------ pure scans

LayerNames == {"A", "B"}
NoLayerHash == [l \in LayerNames |-> EmptyStr]

Last(s) == s[Len(s)]

\* json.loads succeeds on the stripped line.
Parses(line) == line.kind \in {"obj", "scalar"}

\* The re-scan of append under the lock: the hash of the last entry and of the
\* last entry of each layer, over the lines that parse and carry a str hash and
\* a str layer.  obj.get raises AttributeError on JSON that is not an object.
RECURSIVE ScanTail(_, _, _)
ScanTail(lines, idx, st) ==
    IF idx > Len(lines) \/ st.raised THEN st
    ELSE LET line == lines[idx] IN
         ScanTail(lines, idx + 1,
            CASE line.kind \in {"blank", "garbage"} -> st
              [] line.kind = "scalar" -> [st EXCEPT !.raised = TRUE]
              [] OTHER ->
                   IF IsStrHash(line.hash) /\ IsStrText(line.layer)
                   THEN [st EXCEPT !.prev_global = line.hash,
                                   !.prev_layer[line.layer] = line.hash]
                   ELSE st)

\* Variant: the previous hashes come from the object's cache, not the file.
ScanFromCache(lines, cached) ==
    [raised |-> FALSE, prev_global |-> cached.prev_global, prev_layer |-> cached.prev_layer]

\* The scan starts from "" and {} and reads the file; the cache is not read.
ScanUnderLock(lines, cached) ==
    ScanTail(lines, 1, [raised |-> FALSE, prev_global |-> EmptyStr, prev_layer |-> NoLayerHash])

\* _index_existing: the cache kept on the object.  Unlike the scan of append it
\* takes the global hash of an entry whose layer is not a str.
RECURSIVE IndexTail(_, _, _)
IndexTail(lines, idx, st) ==
    IF idx > Len(lines) \/ st.raised THEN st
    ELSE LET line == lines[idx] IN
         IndexTail(lines, idx + 1,
            CASE line.kind \in {"blank", "garbage"} -> st
              [] line.kind = "scalar" -> [st EXCEPT !.raised = TRUE]
              [] OTHER ->
                   IF ~IsStrHash(line.hash) THEN st
                   ELSE IF IsStrText(line.layer)
                   THEN [st EXCEPT !.prev_global = line.hash,
                                   !.prev_layer[line.layer] = line.hash]
                   ELSE [st EXCEPT !.prev_global = line.hash])

IndexExisting(lines) ==
    IndexTail(lines, 1, [raised |-> FALSE, prev_global |-> EmptyStr, prev_layer |-> NoLayerHash])

\* One line of verify's loop.  st: ok, total, reasons, prev_global, prev_layer,
\* raised.  A reason is <<line number, text>>.
Flag(st, idx, text) == [st EXCEPT !.ok = FALSE, !.reasons = Append(@, <<idx, text>>)]

\* Variant: the stored hash is not recomputed.
VerifyChainsNoHash(line, idx, st) ==
    LET s2 == IF GetOrEmpty(line.previous_hash) # st.prev_global
              THEN Flag(st, idx, "global previous_hash mismatch") ELSE st
        s3 == IF GetOrEmpty(line.layer_previous_hash) # st.prev_layer[line.layer]
              THEN Flag(s2, idx, "layer_previous_hash mismatch") ELSE s2
    IN [s3 EXCEPT !.prev_global = line.hash, !.prev_layer[line.layer] = line.hash]

\* Variant: previous_hash is not compared with the running global hash.
VerifyChainsNoGlobal(line, idx, st) ==
    LET s1 == IF Sha256(CanonicalJson(ObjCopy(line))) # line.hash
              THEN Flag(st, idx, "hash mismatch") ELSE st
        s3 == IF GetOrEmpty(line.layer_previous_hash) # st.prev_layer[line.layer]
              THEN Flag(s1, idx, "layer_previous_hash mismatch") ELSE s1
    IN [s3 EXCEPT !.prev_global = line.hash, !.prev_layer[line.layer] = line.hash]

\* The three checks verify makes on an entry with a str hash and a str layer.
VerifyChains(line, idx, st) ==
    LET s1 == IF Sha256(CanonicalJson(ObjCopy(line))) # line.hash
              THEN Flag(st, idx, "hash mismatch") ELSE st
        s2 == IF GetOrEmpty(line.previous_hash) # st.prev_global
              THEN Flag(s1, idx, "global previous_hash mismatch") ELSE s1
        s3 == IF GetOrEmpty(line.layer_previous_hash) # st.prev_layer[line.layer]
              THEN Flag(s2, idx, "layer_previous_hash mismatch") ELSE s2
    IN [s3 EXCEPT !.prev_global = line.hash, !.prev_layer[line.layer] = line.hash]

VerifyLine(line, idx, st) ==
    IF line.kind = "blank" THEN st
    ELSE LET counted == [st EXCEPT !.total = @ + 1] IN
         CASE line.kind = "garbage" -> Flag(counted, idx, "invalid json")
           [] line.kind = "scalar" -> [counted EXCEPT !.raised = TRUE]
           [] OTHER ->
                IF ~IsStrHash(line.hash) \/ ~IsStrText(line.layer)
                THEN Flag(counted, idx, "missing hash/layer")
                ELSE VerifyChains(line, idx, counted)

RECURSIVE VerifyLines(_, _, _)
VerifyLines(lines, idx, st) ==
    IF idx > Len(lines) \/ st.raised THEN st
    ELSE VerifyLines(lines, idx + 1, VerifyLine(lines[idx], idx, st))

\* What a read operation hands back: op, how it ended, and the result.
NoRead ==
    [op |-> "none", status |-> "none", error |-> "", ok |-> TRUE,
     total_entries |-> 0, reasons |-> <<>>, entries |-> <<>>]
Raised(op, error) == [NoRead EXCEPT !.op = op, !.status = "raised", !.error = error]

\* verify(), its dict prev_layer starting as noHash (no layer seen yet):
\* opening a file that does not exist raises FileNotFoundError.
VerifyOver(exists, lines, noHash) ==
    IF ~exists THEN Raised("verify", "FileNotFoundError")
    ELSE LET st == VerifyLines(lines, 1,
                      [ok |-> TRUE, total |-> 0, reasons |-> <<>>, raised |-> FALSE,
                       prev_global |-> EmptyStr, prev_layer |-> noHash])
         IN IF st.raised THEN Raised("verify", "AttributeError")
            ELSE [NoRead EXCEPT !.op = "verify", !.status = "returned", !.ok = st.ok,
                                !.total_entries = st.total, !.reasons = st.reasons]

\* verify() of a ledger with the layers of LayerNames.
Verify(exists, lines) == VerifyOver(exists, lines, NoLayerHash)

\* _iter_entries: the lines that parse, in file order.
IterEntries(exists, lines) == IF exists THEN SelectSeq(lines, Parses) ELSE <<>>

\* tail(n): entries[-n:].
LedgerTail(exists, lines, n) ==
    LET entries == IterEntries(exists, lines)
        got == IF n <= 0 THEN <<>>
               ELSE IF n >= Len(entries) THEN entries
               ELSE SubSeq(entries, Len(entries) - n + 1, Len(entries))
    IN [NoRead EXCEPT !.op = "tail", !.status = "returned", !.entries = got]

\* f.seek(0, SEEK_END); f.write(text + "\n"): the text lands right after the
\* last byte.  After an unterminated last line it continues that line: behind
\* whitespace the line is the new entry, behind anything else it is not JSON.
WriteAtEnd(lines, newline, line) ==
    IF lines = <<>> \/ newline THEN Append(lines, line)
    ELSE [lines EXCEPT ![Len(lines)] =
             IF Last(lines).kind = "blank" THEN line ELSE OtherLine("garbage")]

\* --------------------------------------------------------------- the state

VARIABLES
    fileExists,   \* the ledger file exists
    file,         \* its lines, in order
    eofNewline,   \* its last byte is a newline (or it is empty)
    lock,         \* the writer holding the exclusive lock, or NoWriter
    pc,           \* where each writer is inside append
    args,         \* the arguments of the append each writer is in
    scanned,      \* prev_global / prev_layer each writer computed under the lock
    cache,        \* _last_global_hash / _last_layer_hash of each writer's object
    ret,          \* what each writer's last append returned or raised
    started,      \* appends that passed validation so far
    appended,     \* appends that returned a hash so far
    lastRead,     \* what the last verify() or tail() handed back
    edit          \* the edit made to the file from outside, if any

\* The loop runner (loop_runner.py main) and what it leaves behind.
VARIABLES
    policy,       \* the ClassificationPolicy that load returned
    report,       \* the run report parsed from the engine's stdout, or none
    rc,           \* the engine's return code of the attempt
    outcome,      \* failing_layers, classification, action, reasons of the attempt
    lpc,          \* where main is
    config,       \* the command line: iterations, max_retries, emit_alerts, gated
    engine,       \* what the engine does on the n-th attempt of an iteration
    iteration,    \* i
    attempt,      \* attempt
    outcomes,     \* the list outcomes
    summary,      \* the lines of loop_summary.jsonl
    events,       \* the ledger.append calls main made, in order
    alerts,       \* the alert.json files written
    exitCode      \* what main returned, -1 while it runs

\* The engine (recursion_engine.py main), its checkers and the readers of
\* files and output.
VARIABLES
    policySource, \* what --policy named when the policy was loaded
    env,          \* the engine's arguments and what its probes find
    epc,          \* where the engine's main is
    results,      \* the dict results in insertion order: layer, status of its
                  \* LayerResult, and whether computing it called tcp_probe
    score,        \* what compute_sovereign_score returned
    erc,          \* what the engine's main returned, -1 while it runs
    stdout,       \* the captured output of an engine process
    parsed        \* what _parse_run_report made of it

engineVars == <<policySource, env, epc, results, score, erc, stdout, parsed>>

loopVars == <<policy, report, rc, outcome, lpc, config, engine, iteration, attempt,
              outcomes, summary, events, alerts, exitCode, engineVars>>

vars == <<fileExists, file, eofNewline, lock, pc, args, scanned, cache, ret,
          started, appended, lastRead, edit, loopVars>>

\* ClassificationPolicy.defaults.
Defaults ==
    [hard_layers_on_degraded |-> {"meta", "codex", "digital"},
     hard_statuses |-> {"CORRUPTED", "OVERLOADED"},
     soft_statuses |-> {"DEGRADED"},
     treat_missing_report_as |-> "HARD_FAIL",
     treat_missing_layers_as |-> "HARD_FAIL"]

\* report = None: nothing on stdout, or nothing json.loads accepts.
NoReport == [present |-> FALSE, hasLayers |-> FALSE, layers |-> <<>>]

\* The locals of an attempt before the engine has run.
NoOutcome ==
    [done |-> FALSE, failing_layers |-> <<>>, classification |-> "", action |-> "",
     reasons |-> <<>>]

NoConfig == [iterations |-> 0, max_retries |-> 0, emit_alerts |-> FALSE, gated |-> FALSE]

\* --policy before anything is loaded.
NoSource ==
    [kind |-> "none",
     obj |-> [hard_layers_on_degraded |-> [kind |-> "absent", items |-> <<>>],
              hard_statuses |-> [kind |-> "absent", items |-> <<>>],
              soft_statuses |-> [kind |-> "absent", items |-> <<>>],
              treat_missing_report_as |-> [kind |-> "absent", text |-> ""],
              treat_missing_layers_as |-> [kind |-> "absent", text |-> ""]]]

\* The engine's arguments and surroundings before an engine is started.
NoEnv ==
    [offline |-> FALSE, gated |-> FALSE, rating |-> [given |-> FALSE, value |-> 0],
     nas_host |-> FALSE, net_ok |-> FALSE, nas_ok |-> FALSE, cloud_ok |-> FALSE,
     tailscale |-> "absent", codex_dir |-> FALSE, git |-> "absent", docker |-> FALSE,
     codex_files |-> "all"]

NoScore == [total_capability |-> 0, dangerous_freedom |-> 0, stability |-> 0]

NoParse == [ok |-> FALSE, value |-> <<>>]

\* No engine has been started, nothing has been loaded or parsed.
EngineIdle ==
    /\ policySource = NoSource
    /\ env = NoEnv
    /\ epc = "idle"
    /\ results = <<>>
    /\ score = NoScore
    /\ erc = -1
    /\ stdout = <<>>
    /\ parsed = NoParse

\* No loop runner has been started.
LoopIdle ==
    /\ EngineIdle
    /\ policy = Defaults
    /\ report = NoReport
    /\ rc = 0
    /\ outcome = NoOutcome
    /\ lpc = "idle"
    /\ config = NoConfig
    /\ engine = <<>>
    /\ iteration = 0
    /\ attempt = 0
    /\ outcomes = <<>>
    /\ summary = <<>>
    /\ events = <<>>
    /\ alerts = {}
    /\ exitCode = -1

ValueError == <<"ValueError">>
AttributeError == <<"AttributeError">>
TypeError == <<"TypeError">>
NoArgs == [layer |-> "", event_type |-> "", data |-> NotDict, proof |-> NoProof]
NoScan == [prev_global |-> EmptyStr, prev_layer |-> NoLayerHash]

NoEdit == [kind |-> "none", line |-> 0, field |-> "", last |-> FALSE]

InitWriters ==
    /\ lock = NoWriter
    /\ pc = [w \in Writers |-> "idle"]
    /\ args = [w \in Writers |-> NoArgs]
    /\ scanned = [w \in Writers |-> NoScan]
    /\ cache = [w \in Writers |-> NoScan]
    /\ ret = [w \in Writers |-> EmptyStr]
    /\ started = 0
    /\ appended = 0
    /\ lastRead = NoRead
    /\ edit = NoEdit

\* UniversalLedger(path) on a path with no file yet: __init__ makes the parent
\* directory, not the file, and indexes nothing.
Init ==
    /\ fileExists = FALSE
    /\ file = <<>>
    /\ eofNewline = TRUE
    /\ InitWriters
    /\ LoopIdle

\* ------------------------------------------------------------------ append

\* Variant: only emptiness is checked, not isinstance(..., str).
ValidateTruthy(a) == a.layer # "" /\ a.event_type # "" /\ a.data # NotDict

\* The three checks at the head of append.
Validate(a) ==
    /\ a.layer # "" /\ a.layer # NonStr
    /\ a.event_type # "" /\ a.event_type # NonStr
    /\ a.data # NotDict

\* append, up to open("a+"): a call that fails validation raises ValueError
\* before anything is opened; open in mode a+ creates the file.
Call(w, a) ==
    /\ pc[w] = "idle"
    /\ IF Validate(a)
       THEN /\ started < MaxAppends
            /\ started' = started + 1
            /\ fileExists' = TRUE
            /\ pc' = [pc EXCEPT ![w] = "opened"]
            /\ args' = [args EXCEPT ![w] = a]
            /\ UNCHANGED ret
       ELSE /\ ret' = [ret EXCEPT ![w] = ValueError]
            /\ UNCHANGED <<started, fileExists, pc, args>>
    /\ UNCHANGED <<file, eofNewline, lock, scanned, cache, appended, lastRead, edit, loopVars>>

\* Variant: flock returns at once whoever holds the lock.
LockIgnored(holder) == TRUE

\* flock(LOCK_EX) returns once nobody else holds the lock.
LockGranted(holder) == holder = NoWriter

Lock(w) ==
    /\ pc[w] = "opened"
    /\ LockGranted(lock)
    /\ lock' = w
    /\ pc' = [pc EXCEPT ![w] = "locked"]
    /\ UNCHANGED <<fileExists, file, eofNewline, args, scanned, cache, ret,
                   started, appended, lastRead, edit, loopVars>>

\* f.seek(0) and the loop over the lines.
Scan(w) ==
    /\ pc[w] = "locked"
    /\ LET st == ScanUnderLock(file, cache[w]) IN
         IF st.raised
         THEN /\ pc' = [pc EXCEPT ![w] = "raising"]
              /\ UNCHANGED scanned
         ELSE /\ pc' = [pc EXCEPT ![w] = "scanned"]
              /\ scanned' = [scanned EXCEPT ![w] =
                    [prev_global |-> st.prev_global, prev_layer |-> st.prev_layer]]
    /\ UNCHANGED <<fileExists, file, eofNewline, lock, args, cache, ret,
                   started, appended, lastRead, edit, loopVars>>

\* Variant: layer_previous_hash is taken from the global chain.
NewEntryLayerFromGlobal(a, sc) ==
    [layer |-> a.layer, event_type |-> a.event_type, data |-> a.data,
     proof |-> a.proof, previous_hash |-> sc.prev_global,
     layer_previous_hash |-> sc.prev_global,
     ts |-> Clock, engine_version |-> EngineVersion]

\* The LedgerEntry append builds from its arguments and the scan.
NewEntry(a, sc) ==
    [layer |-> a.layer, event_type |-> a.event_type, data |-> a.data,
     proof |-> a.proof, previous_hash |-> sc.prev_global,
     layer_previous_hash |-> sc.prev_layer[a.layer],
     ts |-> Clock, engine_version |-> EngineVersion]

\* LedgerEntry.compute_hash.
ComputeHash(e) == Sha256(CanonicalJson(ToDict(e)))

\* The line append writes: the entry's dict with its hash.
EntryLine(e) == ObjLine(ToDict(e), ComputeHash(e))

\* Build the entry, write it at the end, flush, update the object's cache.
\* compute_hash raises TypeError, before anything is written, for a payload
\* json.dumps cannot write.
Write(w) ==
    /\ pc[w] = "scanned"
    /\ IF args[w].data = Unserialisable
       THEN /\ pc' = [pc EXCEPT ![w] = "unserialisable"]
            /\ UNCHANGED <<file, eofNewline, cache>>
       ELSE /\ LET e == EntryLine(NewEntry(args[w], scanned[w])) IN
                 /\ file' = WriteAtEnd(file, eofNewline, e)
                 /\ eofNewline' = TRUE
                 /\ cache' = [cache EXCEPT ![w] =
                       [prev_global |-> e.hash,
                        prev_layer |-> [@.prev_layer EXCEPT ![e.layer] = e.hash]]]
            /\ pc' = [pc EXCEPT ![w] = "written"]
    /\ UNCHANGED <<fileExists, lock, args, scanned, ret, started, appended, lastRead, edit, loopVars>>

\* Variant: no try / finally around the yield, an exception in the body
\* skips the unlock.
UnlockUnlessRaising(holder, w, raising) ==
    IF holder = w /\ ~raising THEN NoWriter ELSE holder

\* The finally clause of _exclusive_file_lock: flock(LOCK_UN), whether the
\* body returned or raised.
Unlock(holder, w, raising) == IF holder = w THEN NoWriter ELSE holder

\* Leaving the with blocks: unlock, close, return entry.hash.
Return(w) ==
    /\ pc[w] = "written"
    /\ lock' = Unlock(lock, w, FALSE)
    /\ pc' = [pc EXCEPT ![w] = "idle"]
    /\ ret' = [ret EXCEPT ![w] = cache[w].prev_global]
    /\ appended' = appended + 1
    /\ UNCHANGED <<fileExists, file, eofNewline, args, scanned, cache, started, lastRead, edit, loopVars>>

\* The scan or compute_hash raised: the with blocks unlock and close, the
\* error propagates.
Raise(w) ==
    /\ pc[w] \in {"raising", "unserialisable"}
    /\ lock' = Unlock(lock, w, TRUE)
    /\ pc' = [pc EXCEPT ![w] = "idle"]
    /\ ret' = [ret EXCEPT ![w] = IF pc[w] = "raising" THEN AttributeError ELSE TypeError]
    /\ UNCHANGED <<fileExists, file, eofNewline, args, scanned, cache, started,
                   appended, lastRead, edit, loopVars>>

\* ------------------------------------------------------------------- reads

DoVerify ==
    /\ lastRead' = Verify(fileExists, file)
    /\ UNCHANGED <<fileExists, file, eofNewline, lock, pc, args, scanned, cache,
                   ret, started, appended, edit, loopVars>>

\* A new UniversalLedger object on the same path (a process starting):
\* __init__ runs _index_existing, which raises on JSON that is not an object.
Construct(w) ==
    /\ pc[w] = "idle"
    /\ LET st == IndexExisting(IF fileExists THEN file ELSE <<>>) IN
         IF st.raised
         THEN /\ ret' = [ret EXCEPT ![w] = AttributeError]
              /\ UNCHANGED cache
         ELSE /\ cache' = [cache EXCEPT ![w] =
                    [prev_global |-> st.prev_global, prev_layer |-> st.prev_layer]]
              /\ UNCHANGED ret
    /\ UNCHANGED <<fileExists, file, eofNewline, lock, pc, args, scanned,
                   started, appended, lastRead, edit, loopVars>>

\* tail(n) for the n a caller asks for.
TailSizes == {0, 1, 2}

DoTail(n) ==
    /\ lastRead' = LedgerTail(fileExists, file, n)
    /\ UNCHANGED <<fileExists, file, eofNewline, lock, pc, args, scanned, cache,
                   ret, started, appended, edit, loopVars>>

AppendStep(w, calls) ==
    \/ \E a \in calls : Call(w, a)
    \/ Lock(w)
    \/ Scan(w)
    \/ Write(w)
    \/ Return(w)

\* Two writer processes on a fresh ledger, and a reader.
Next ==
    \/ \E w \in Writers : AppendStep(w, CallArgs)
    \/ DoVerify

Spec == Init /\ [][Next]_vars

\* ------------------------------------------- edits of the file from outside

\* The values an editor may put in a key of a stored entry: for a text key the
\* values the key takes and a non-string, for a hash key "", a non-string, no
\* key at all, and the hashes found in the file.
TextKeys == {"data", "engine_version", "layer", "proof", "ts", "type"}
HashKeys == {"hash", "layer_previous_hash", "previous_hash"}
TextValues(key) ==
    CASE key = "data" -> {"{'1':x}", "{a:1}"}
      [] key = "engine_version" -> {EngineVersion, "recursion-v2"}
      [] key = "layer" -> {"A", "B", NonStr}
      [] key = "proof" -> {Absent, "pf"}
      [] key = "ts" -> {Clock, "t1"}
      [] key = "type" -> {"check", "probe"}
HashValues(lines) ==
    {EmptyStr, NonStrHash, AbsentKey} \cup {lines[i].hash : i \in DOMAIN lines}

Edited(kind, k, key) ==
    [kind |-> kind, line |-> k, field |-> key, last |-> (k = Len(file))]

UnchangedByEdit ==
    UNCHANGED <<fileExists, eofNewline, lock, pc, args, scanned, cache, ret,
                started, appended, lastRead, loopVars>>

\* One key of the entry on line k is given another value.
EditField(k, key, v) ==
    /\ edit = NoEdit
    /\ k \in DOMAIN file /\ file[k].kind = "obj"
    /\ file[k][key] # v
    /\ file' = [file EXCEPT ![k] = [@ EXCEPT ![key] = v]]
    /\ edit' = Edited("field", k, key)
    /\ UnchangedByEdit

\* Line k is removed.
DeleteLine(k) ==
    /\ edit = NoEdit
    /\ k \in DOMAIN file
    /\ file' = SubSeq(file, 1, k - 1) \o SubSeq(file, k + 1, Len(file))
    /\ edit' = Edited("delete", k, "")
    /\ UnchangedByEdit

\* Lines i and j change places.
SwapLines(i, j) ==
    /\ edit = NoEdit
    /\ i \in DOMAIN file /\ j \in DOMAIN file /\ i < j
    /\ file' = [file EXCEPT ![i] = file[j], ![j] = file[i]]
    /\ edit' = Edited("swap", i, "")
    /\ UnchangedByEdit

\* The writer of the specifications with one writer process.
SoloWriters == {"w1"}

\* One writer on a fresh ledger, a reader, and one edit from outside.
NextEdited ==
    \/ \E w \in SoloWriters : AppendStep(w, ValidArgs)
    \/ DoVerify
    \/ \E k \in 1..MaxAppends : \E key \in TextKeys : \E v \in TextValues(key) :
          EditField(k, key, v)
    \/ \E k \in 1..MaxAppends : \E key \in HashKeys : \E v \in HashValues(file) :
          EditField(k, key, v)
    \/ \E k \in 1..MaxAppends : DeleteLine(k)
    \/ \E i, j \in 1..MaxAppends : SwapLines(i, j)

SpecEdited == Init /\ [][NextEdited]_vars

\* ------------------------------------------------ a file in any condition

\* Lines a ledger file may hold when it comes from elsewhere: blank, not JSON,
\* JSON that is no object, a first and a second entry of layer A as append
\* writes them, and a first entry with its hash or its layer not a str.
SoloArgs == [layer |-> "A", event_type |-> "check", data |-> "{1:x}", proof |-> NoProof]
FirstLine == EntryLine(NewEntry(SoloArgs, NoScan))
SecondLine ==
    EntryLine(NewEntry(SoloArgs,
        [prev_global |-> FirstLine.hash,
         prev_layer |-> [NoLayerHash EXCEPT !["A"] = FirstLine.hash]]))
StoredLines ==
    {OtherLine("blank"), OtherLine("garbage"), OtherLine("scalar"),
     FirstLine, SecondLine,
     [FirstLine EXCEPT !.hash = NonStrHash],
     [FirstLine EXCEPT !.layer = NonStr]}
AnyFiles == UNION {[1..n -> StoredLines] : n \in 0..MaxLines}

\* A ledger object made on a path without a file; since then the file has been
\* put there or rewritten from outside, with or without a final newline.
InitAnyFile ==
    /\ file \in AnyFiles
    /\ fileExists \in (IF file = <<>> THEN BOOLEAN ELSE {TRUE})
    /\ eofNewline \in (IF file = <<>> THEN {TRUE} ELSE BOOLEAN)
    /\ InitWriters
    /\ LoopIdle

NextAnyFile ==
    \/ \E w \in SoloWriters : AppendStep(w, {SoloArgs})
    \/ \E w \in SoloWriters : Raise(w)
    \/ \E w \in SoloWriters : Construct(w)
    \/ DoVerify
    \/ \E n \in TailSizes : DoTail(n)

SpecAnyFile == InitAnyFile /\ [][NextAnyFile]_vars

\* ------------------------------------------------- claims on a fresh ledger

AllIdle == \A w \in Writers : pc[w] = "idle"

\* The hash of the last line of lines ("" when there is none), and of the last
\* line of the given layer.
TailHash(lines) == IF lines = <<>> THEN EmptyStr ELSE Last(lines).hash
RECURSIVE LayerTailHash(_, _)
LayerTailHash(lines, layer) ==
    IF lines = <<>> THEN EmptyStr
    ELSE IF Last(lines).layer = layer THEN Last(lines).hash
    ELSE LayerTailHash(SubSeq(lines, 1, Len(lines) - 1), layer)

C2_NoSharedPreviousHash ==
    /\ \A i, j \in 1..Len(file) : i # j => file[i].previous_hash # file[j].previous_hash
    /\ AllIdle /\ fileExists => Verify(fileExists, file).ok

C2_Witness ==
    \E w, v \in Writers :
        /\ pc[w] = "written" /\ pc[v] = "opened" /\ lock = w
        /\ Len(file) >= 2
        /\ cache[v].prev_global = file[Len(file) - 1].hash

\* C3: the entry a writer writes takes previous_hash and layer_previous_hash
\* from the file as it is under the lock, whatever the writer's own cache holds.
C3_PreviousFromFile ==
    [][\A w \in Writers :
          Write(w) =>
             /\ Len(file') = Len(file) + 1
             /\ Last(file').previous_hash = TailHash(file)
             /\ Last(file').layer_previous_hash = LayerTailHash(file, args[w].layer)]_vars

\* A appended, then B, then A again: A's third entry points at B's entry while
\* the hash A last returned is that of its own first entry.
C3_Witness ==
    \E w, v \in Writers :
        /\ w # v /\ pc[w] = "written" /\ Len(file) = 3
        /\ ret[w] = file[1].hash
        /\ ret[v] = file[2].hash
        /\ file[3].hash = cache[w].prev_global
        /\ file[3].previous_hash = file[2].hash
        /\ file[3].layer = file[2].layer
        /\ file[3].layer_previous_hash = file[2].hash

\* C4: every entry's previous_hash is the hash of the entry right before it
\* ("" for the first) and its layer_previous_hash is the hash of the latest
\* earlier entry of the same layer ("" if there is none).
C4_ChainsLink ==
    \A k \in 1..Len(file) :
        /\ file[k].kind = "obj"
        /\ file[k].previous_hash = TailHash(SubSeq(file, 1, k - 1))
        /\ file[k].layer_previous_hash = LayerTailHash(SubSeq(file, 1, k - 1), file[k].layer)

\* Layers A, B, A: the third entry's layer_previous_hash is the first entry's
\* hash, not the second's.
C4_Witness ==
    /\ Len(file) = 3
    /\ file[1].layer = "A" /\ file[2].layer = "B" /\ file[3].layer = "A"
    /\ file[3].layer_previous_hash = file[1].hash
    /\ file[3].layer_previous_hash # file[2].hash

\* C9: an append whose layer or event_type is empty or not a str, or whose data
\* is not a dict, raises the validation error in that very step, writes nothing
\* and does not create the file.
C9_InvalidArgsRejected ==
    [][\A w \in Writers : \A a \in CallArgs :
          ( /\ Call(w, a)
            /\ \/ a.layer \in {"", NonStr}
               \/ a.event_type \in {"", NonStr}
               \/ a.data = NotDict )
          => /\ ret'[w] = ValueError
             /\ pc'[w] = "idle"
             /\ UNCHANGED <<fileExists, file, eofNewline>>]_vars

C9_Witness ==
    \E w \in Writers : ret[w] = ValueError /\ ~fileExists /\ pc[w] = "idle"

\* --------------------------------------------------- claims on edited files

\* C5: with the payload of the entry on line k changed and its stored hash left
\* alone, verify() returns ok = false with "hash mismatch" for line k as its one
\* reason, and counts every line.
C5_PayloadEditFlagged ==
    edit.kind = "field" /\ edit.field = "data" =>
        LET r == Verify(fileExists, file) IN
          /\ r.status = "returned" /\ ~r.ok
          /\ r.reasons = << <<edit.line, "hash mismatch">> >>
          /\ r.total_entries = Len(file)

\* The payload of a middle line was changed, verify() has run and said so.
C5_Witness ==
    /\ edit.kind = "field" /\ edit.field = "data"
    /\ Len(file) = 3 /\ edit.line = 2
    /\ lastRead.op = "verify" /\ lastRead.status = "returned" /\ ~lastRead.ok
    /\ lastRead.reasons = << <<2, "hash mismatch">> >>
    /\ lastRead.total_entries = 3

\* C8 as stated: whatever the edit (a key changed, a line deleted, two lines
\* swapped), verify() returns ok = false.
C8_EveryEditDetected ==
    edit.kind # "none" =>
        LET r == Verify(fileExists, file) IN r.status = "returned" /\ ~r.ok

\* C8 as the code has it: a changed key, a swap of two lines, and the deletion
\* of a line that was not the last one make verify() return ok = false.
C8_EditDetectedButTailCut ==
    edit.kind \in {"field", "swap"} \/ (edit.kind = "delete" /\ ~edit.last) =>
        LET r == Verify(fileExists, file) IN r.status = "returned" /\ ~r.ok

\* A line that was not the last was deleted, and verify() has run and failed.
C8_Witness ==
    /\ edit.kind = "delete" /\ ~edit.last
    /\ Len(file) >= 2
    /\ lastRead.op = "verify" /\ lastRead.status = "returned" /\ ~lastRead.ok

\* ------------------------------------------- claims on a file in any condition

\* An entry verify puts on the chains: an object with a str hash and a str layer.
WellFormed(line) == line.kind = "obj" /\ IsStrHash(line.hash) /\ IsStrText(line.layer)

\* The hash of the latest well-formed entry before line k ("" if none).
RECURSIVE RunningGlobal(_, _)
RunningGlobal(lines, k) ==
    IF k <= 1 THEN EmptyStr
    ELSE IF WellFormed(lines[k - 1]) THEN lines[k - 1].hash
    ELSE RunningGlobal(lines, k - 1)

HasReason(r, k, text) == \E i \in DOMAIN r.reasons : r.reasons[i] = <<k, text>>

\* C6: verify() scans the file to its end: it returns a report that counts every
\* non-blank line, holds "invalid json" for every line that is not JSON and
\* "global previous_hash mismatch" for every entry whose previous_hash is not
\* the running global hash, each under its line number, with ok = false.
C6_VerifyScansEveryLine ==
    fileExists =>
        LET r == Verify(fileExists, file) IN
          /\ r.status = "returned"
          /\ r.total_entries = Cardinality({k \in DOMAIN file : file[k].kind # "blank"})
          /\ \A k \in DOMAIN file :
                file[k].kind = "garbage" => HasReason(r, k, "invalid json")
          /\ \A k \in DOMAIN file :
                WellFormed(file[k])
                /\ GetOrEmpty(file[k].previous_hash) # RunningGlobal(file, k)
                => HasReason(r, k, "global previous_hash mismatch")
          /\ r.reasons # <<>> => ~r.ok

\* C7: whatever the file holds, and also when there is no file yet, verify()
\* returns a report and raises nothing.
C7_VerifyAlwaysReturns ==
    /\ Verify(fileExists, file).status = "returned"
    /\ lastRead.op = "verify" => lastRead.status = "returned"

\* C10: a write of append keeps every line there was and adds one line after
\* them, verify() and tail() leave the file alone, and once verify() returns
\* ok = false it does so after every further step, with the reasons it gave
\* before at the head of its reasons.
C10_AppendOnlyNoRepair ==
    [][/\ \A w \in Writers :
             Write(w) => /\ Len(file') = Len(file) + 1
                         /\ SubSeq(file', 1, Len(file)) = file
       /\ (DoVerify \/ \E n \in TailSizes : DoTail(n))
             => UNCHANGED <<fileExists, file, eofNewline>>
       /\ LET before == Verify(fileExists, file)
              after == Verify(fileExists', file')
          IN before.status = "returned" /\ ~before.ok
             => /\ after.status = "returned" /\ ~after.ok
                /\ Len(after.reasons) >= Len(before.reasons)
                /\ SubSeq(after.reasons, 1, Len(before.reasons)) = before.reasons]_vars

\* --------------------------------------------- a platform without the lock

\* flock / msvcrt.locking raises (no fcntl, no lock support on the file
\* system): the except clause passes and the body of the with block runs
\* without the lock; nothing is written or logged about it.
LockUnavailable(w) ==
    /\ pc[w] = "opened"
    /\ pc' = [pc EXCEPT ![w] = "locked"]
    /\ UNCHANGED <<fileExists, file, eofNewline, lock, args, scanned, cache, ret,
                   started, appended, lastRead, edit, loopVars>>

NextNoLock ==
    \/ \E w \in Writers : AppendStep(w, {SoloArgs})
    \/ \E w \in Writers : LockUnavailable(w)
    \/ DoVerify

SpecNoLock == Init /\ [][NextNoLock]_vars

\* C11: an append that could not take the lock still writes its entry and
\* returns its hash, and the fact that it ran without the lock can be seen
\* afterwards: the file holds a warning entry, or the call hands back
\* something other than the plain hash of its entry.
C11_UnlockedAppendSignalled ==
    [][\A w \in Writers :
          Return(w) /\ lock # w
             => /\ \E k \in DOMAIN file : file[k].hash = ret'[w]
                /\ \/ \E k \in DOMAIN file :
                         file[k].kind = "obj" /\ file[k].type # args[w].event_type
                   \/ ret'[w] # cache[w].prev_global]_vars

\* ------------------------------------------------ the classification policy

\* str.strip, str.upper and str.lower on the strings that occur here.
Strip(s) == CASE s = " pass " -> "pass" [] s = " " -> "" [] OTHER -> s
Upper(s) ==
    CASE s = "pass" -> "PASS"
      [] s = "bogus" -> "BOGUS"
      [] s = "warning" -> "WARNING"
      [] s = "degraded" -> "DEGRADED"
      [] OTHER -> s
Lower(s) ==
    CASE s = "Physical" -> "physical"
      [] s = "Digital" -> "digital"
      [] OTHER -> s

\* The values of the keys of a policy file: a key may be absent, a list-valued
\* key may hold a list of strings or a number, a text-valued key a string.
AbsentList == [kind |-> "absent", items |-> <<>>]
JsonList(items) == [kind |-> "list", items |-> items]
JsonNumber == [kind |-> "number", items |-> <<>>]
AbsentText == [kind |-> "absent", text |-> ""]
JsonText(t) == [kind |-> "str", text |-> t]

PolicyFiles ==
    [hard_layers_on_degraded :
        {AbsentList, JsonList(<<"Physical">>), JsonList(<<" ">>), JsonNumber},
     hard_statuses : {AbsentList, JsonList(<<"warning">>)},
     soft_statuses : {AbsentList, JsonList(<<"WARNING", "warning">>)},
     treat_missing_report_as :
        {AbsentText, JsonText(" pass "), JsonText("SOFT_FAIL"), JsonText("bogus")},
     treat_missing_layers_as : {AbsentText, JsonText("pass"), JsonText("SOFT_FAIL")}]

\* obj.get(key, list(default)) as the set of its items.
ItemsOr(value, default) ==
    IF value.kind = "absent" THEN default
    ELSE {value.items[i] : i \in DOMAIN value.items}

\* Iterating over a value that is no list or string raises TypeError.
FromJsonRaises(obj) ==
    \/ obj.hard_layers_on_degraded.kind = "number"
    \/ obj.hard_statuses.kind = "number"
    \/ obj.soft_statuses.kind = "number"

\* str(obj.get(key, default)).strip().upper(), replaced by the default unless
\* it is one of the three classifications.
TreatAs(value, default) ==
    LET t == Upper(Strip(IF value.kind = "absent" THEN default ELSE value.text))
    IN IF t \in {"PASS", "SOFT_FAIL", "HARD_FAIL"} THEN t ELSE default

\* "x or default" for a set.
OrDefault(set, default) == IF set = {} THEN default ELSE set

\* ClassificationPolicy.from_json.
FromJson(obj) ==
    LET hard_layers == ItemsOr(obj.hard_layers_on_degraded, Defaults.hard_layers_on_degraded)
        hard_statuses == ItemsOr(obj.hard_statuses, Defaults.hard_statuses)
        soft_statuses == ItemsOr(obj.soft_statuses, Defaults.soft_statuses)
    IN [hard_layers_on_degraded |->
           OrDefault({Lower(Strip(x)) : x \in {y \in hard_layers : Strip(y) # ""}},
                     Defaults.hard_layers_on_degraded),
        hard_statuses |->
           OrDefault({Upper(Strip(x)) : x \in {y \in hard_statuses : Strip(y) # ""}},
                     Defaults.hard_statuses),
        soft_statuses |->
           OrDefault({Upper(Strip(x)) : x \in {y \in soft_statuses : Strip(y) # ""}},
                     Defaults.soft_statuses),
        treat_missing_report_as |->
           TreatAs(obj.treat_missing_report_as, Defaults.treat_missing_report_as),
        treat_missing_layers_as |->
           TreatAs(obj.treat_missing_layers_as, Defaults.treat_missing_layers_as)]

\* What --policy names: no path, a path without a file, a file that is not a
\* JSON object, or a JSON object.
NoPolicyFile ==
    [hard_layers_on_degraded |-> AbsentList, hard_statuses |-> AbsentList,
     soft_statuses |-> AbsentList, treat_missing_report_as |-> AbsentText,
     treat_missing_layers_as |-> AbsentText]
PolicySources ==
    {[kind |-> k, obj |-> NoPolicyFile] : k \in {"nopath", "nofile", "notdict"}}
       \cup {[kind |-> "dict", obj |-> f] : f \in PolicyFiles}

\* ClassificationPolicy.load.
Load(source) ==
    IF source.kind # "dict" \/ FromJsonRaises(source.obj)
    THEN Defaults
    ELSE FromJson(source.obj)

LoadedPolicies == {Load(src) : src \in PolicySources}

\* ------------------------------------------------------------ run reports

MaxLayers == 2

\* The entries of the "layers" object of a report, in the order of the
\* object: the layer's name and its data, which is an object with or without
\* a "status" or no object at all.
Statuses == {"STABLE", "WARNING", "degraded", "CORRUPTED"}
LayerKeys == {"meta", "physical", "Digital"}
LayerEntries ==
    [key : LayerKeys, isDict : {TRUE}, hasStatus : {TRUE}, status : Statuses]
       \cup [key : LayerKeys, isDict : BOOLEAN, hasStatus : {FALSE}, status : {""}]
LayerMaps ==
    UNION {{m \in [1..n -> LayerEntries] :
               \A i, j \in 1..n : i # j => m[i].key # m[j].key} : n \in 0..MaxLayers}

\* What _parse_run_report hands back: None, an object without a layer map, an
\* object with one.
Reports ==
    {NoReport, [present |-> TRUE, hasLayers |-> FALSE, layers |-> <<>>]}
       \cup {[present |-> TRUE, hasLayers |-> TRUE, layers |-> m] : m \in LayerMaps}
ReturnCodes == {0, 1, 2}

\* str(data.get("status", default)).upper()
StatusOr(e, default) == Upper(IF e.hasStatus THEN e.status ELSE default)

\* _failing_layers_from_report.
FailingLayersFromReport(rep) ==
    IF ~rep.hasLayers THEN <<>>
    ELSE LET Failing(e) ==
                e.isDict /\ StatusOr(e, "") \in {"DEGRADED", "OVERLOADED", "CORRUPTED"}
             sel == SelectSeq(rep.layers, Failing)
         IN [i \in DOMAIN sel |-> sel[i].key]

\* Variant: DEGRADED is a hard reason on every layer.
HardReasonAnyLayer(e, pol) ==
    e.isDict /\ (StatusOr(e, "UNKNOWN") \in pol.hard_statuses
                   \/ StatusOr(e, "UNKNOWN") = "DEGRADED")

\* The branches of the loop of _classify that append to hard_reasons ...
HardReason(e, pol) ==
    /\ e.isDict
    /\ \/ StatusOr(e, "UNKNOWN") \in pol.hard_statuses
       \/ /\ StatusOr(e, "UNKNOWN") = "DEGRADED"
          /\ Lower(e.key) \in pol.hard_layers_on_degraded

\* ... and to soft_reasons.
SoftReason(e, pol) ==
    /\ e.isDict
    /\ ~HardReason(e, pol)
    /\ \/ StatusOr(e, "UNKNOWN") = "DEGRADED"
       \/ StatusOr(e, "UNKNOWN") \in pol.soft_statuses

\* The list of f"{layer_name}:{status}" of the entries that pass Test.
ReasonsOf(layers, pol, Test(_, _)) ==
    LET Keep(e) == Test(e, pol)
        sel == SelectSeq(layers, Keep)
    IN [i \in DOMAIN sel |-> <<sel[i].key, StatusOr(sel[i], "UNKNOWN")>>]

ActionFor(cls) ==
    IF cls = "HARD_FAIL" THEN "emit_alert"
    ELSE IF cls = "SOFT_FAIL" THEN "retry" ELSE "log_only"

Classified(cls, action, reasons) ==
    [classification |-> cls, action |-> action, reasons |-> reasons]

\* _classify.
Classify(rep, c, pol) ==
    IF c = 0 THEN Classified("PASS", "log_only", <<>>)
    ELSE IF ~rep.present
    THEN Classified(pol.treat_missing_report_as, ActionFor(pol.treat_missing_report_as),
                    <<<<"missing_or_unparseable_run_report">>>>)
    ELSE IF ~rep.hasLayers
    THEN Classified(pol.treat_missing_layers_as, ActionFor(pol.treat_missing_layers_as),
                    <<<<"missing_layers_in_report">>>>)
    ELSE LET failing == FailingLayersFromReport(rep)
             hard == ReasonsOf(rep.layers, pol, HardReason)
             soft == ReasonsOf(rep.layers, pol, SoftReason)
         IN IF hard # <<>> THEN Classified("HARD_FAIL", "emit_alert", hard)
            ELSE IF failing # <<>> \/ soft # <<>>
            THEN Classified("SOFT_FAIL", "retry",
                            IF soft # <<>> THEN soft
                            ELSE [i \in DOMAIN failing |-> <<failing[i]>>])
            ELSE Classified("SOFT_FAIL", "retry", <<<<"nonzero_rc_without_failing_layers">>>>)

\* The locals main computes from one engine run: failing_layers from the
\* report, classification, action and reasons from _classify.
AttemptOutcome(rep, c, pol) ==
    LET cl == Classify(rep, c, pol)
    IN [done |-> TRUE,
        failing_layers |-> IF rep.present THEN FailingLayersFromReport(rep) ELSE <<>>,
        classification |-> cl.classification, action |-> cl.action,
        reasons |-> cl.reasons]

ledgerVars == <<fileExists, file, eofNewline, lock, pc, args, scanned, cache, ret,
                started, appended, lastRead, edit>>

\* One engine run classified under the loaded policy.
ClassifyOnce(rep, c) ==
    /\ ~outcome.done
    /\ report' = rep
    /\ rc' = c
    /\ outcome' = AttemptOutcome(rep, c, policy)
    /\ UNCHANGED <<ledgerVars, engineVars, policy, lpc, config, engine, iteration, attempt,
                   outcomes, summary, events, alerts, exitCode>>

\* A policy as load returns it, and nothing classified yet.
InitClassify ==
    /\ fileExists = FALSE
    /\ file = <<>>
    /\ eofNewline = TRUE
    /\ InitWriters
    /\ EngineIdle
    /\ policy \in LoadedPolicies
    /\ report = NoReport
    /\ rc = 0
    /\ outcome = NoOutcome
    /\ lpc = "idle"
    /\ config = NoConfig
    /\ engine = <<>>
    /\ iteration = 0
    /\ attempt = 0
    /\ outcomes = <<>>
    /\ summary = <<>>
    /\ events = <<>>
    /\ alerts = {}
    /\ exitCode = -1

NextClassify == \E rep \in Reports, c \in ReturnCodes : ClassifyOnce(rep, c)

SpecClassify == InitClassify /\ [][NextClassify]_vars

\* ------------------------------------------------ claims on classification

\* A layer entry with a failing status.
HasFailingStatus(e) ==
    e.isDict /\ e.hasStatus /\ Upper(e.status) \in {"DEGRADED", "OVERLOADED", "CORRUPTED"}

\* A layer entry that gives a hard reason under the policy in force.
GivesHardReason(e) ==
    /\ e.isDict
    /\ e.hasStatus
    /\ \/ Upper(e.status) \in policy.hard_statuses
       \/ Upper(e.status) = "DEGRADED" /\ Lower(e.key) \in policy.hard_layers_on_degraded

\* C12: an attempt is classified PASS, with action log_only, only when the
\* return code is 0, the report is there and none of its layers has a failing
\* status; the failing-layer list recorded with a PASS is empty.
C12_PassOnlyWhenClean ==
    outcome.done /\ outcome.classification = "PASS"
       => /\ outcome.action = "log_only"
          /\ rc = 0
          /\ report.present
          /\ \A i \in DOMAIN report.layers : ~HasFailingStatus(report.layers[i])
          /\ outcome.failing_layers = <<>>

\* C13: when the report has a layer map and some layer has a status of the
\* policy's always-hard set, or is DEGRADED on a layer of the policy's
\* hard-on-degraded set, the classification is HARD_FAIL with action
\* emit_alert, whatever the other layers say and in whatever order they come.
C13_HardReasonForcesHardFail ==
    /\ outcome.done
    /\ report.hasLayers
    /\ \E i \in DOMAIN report.layers : GivesHardReason(report.layers[i])
    => outcome.classification = "HARD_FAIL" /\ outcome.action = "emit_alert"

\* C14: without a report the classification is never PASS, for every return
\* code and every policy load can return, and under the default policy it is
\* HARD_FAIL.
C14_MissingReportNeverPass ==
    outcome.done /\ ~report.present
       => /\ outcome.classification # "PASS"
          /\ policy = Defaults => outcome.classification = "HARD_FAIL"

\* C15: with a nonzero return code and a layer map in which no layer gives a
\* hard reason, the classification is SOFT_FAIL with action retry, whether
\* some layer gives a soft reason or no layer is failing at all.
C15_NoHardReasonSoftFail ==
    /\ outcome.done
    /\ rc # 0
    /\ report.hasLayers
    /\ \A i \in DOMAIN report.layers : ~GivesHardReason(report.layers[i])
    => outcome.classification = "SOFT_FAIL" /\ outcome.action = "retry"

\* "physical" = DEGRADED under the default policy has been classified.
C15_Witness ==
    /\ outcome.done
    /\ rc # 0
    /\ policy = Defaults
    /\ report.hasLayers
    /\ \E i \in DOMAIN report.layers :
          /\ report.layers[i].key = "physical"
          /\ report.layers[i].hasStatus
          /\ Upper(report.layers[i].status) = "DEGRADED"
    /\ \A i \in DOMAIN report.layers : ~GivesHardReason(report.layers[i])
    /\ outcome.classification = "SOFT_FAIL"

\* --------------------------------------------------------- the loop runner

MaxIterations == 2
MaxRetries == 2

\* --iterations, --max-retries, --emit-alerts, --gated as argparse hands them
\* over; 0 iterations and -1 retries are the values main refuses.
Configs ==
    [iterations : 0..MaxIterations, max_retries : -1..MaxRetries,
     emit_alerts : BOOLEAN, gated : BOOLEAN]

\* What one run of the engine can hand back: return code and parsed report.
LayerStatus(key, status) ==
    [key |-> key, isDict |-> TRUE, hasStatus |-> TRUE, status |-> status]
ReportOf(layers) == [present |-> TRUE, hasLayers |-> TRUE, layers |-> layers]
CleanRun == [rc |-> 0, report |-> ReportOf(<<LayerStatus("physical", "STABLE")>>)]
SoftRun == [rc |-> 1, report |-> ReportOf(<<LayerStatus("physical", "DEGRADED")>>)]
HardRun == [rc |-> 1, report |-> ReportOf(<<LayerStatus("meta", "CORRUPTED")>>)]
MissingRun == [rc |-> 1, report |-> NoReport]
EngineResults == {CleanRun, SoftRun, HardRun, MissingRun}

\* The engine as the loop sees it: what it does on its first runs, after
\* which it starts over.
Scripts == [1..(MaxRetries + 1) -> EngineResults]

\* The result of the n-th engine run of a loop.
EngineRun(script, n) == script[((n - 1) % Len(script)) + 1]

\* The policies the loop is run with: the built-in one and a policy file that
\* sets treat_missing_report_as.
LoopPolicies ==
    {Defaults,
     Load([kind |-> "dict",
           obj |-> [NoPolicyFile EXCEPT !.treat_missing_report_as = JsonText(" pass ")]])}

\* The arguments of a ledger.append("meta", type, data) call of main.
LoopEvent(type, i, a, c, o, kind) ==
    [layer |-> "meta", type |-> type, iteration |-> i, attempt |-> a, rc |-> c,
     failing_layers |-> o.failing_layers, classification |-> o.classification,
     action |-> o.action, reasons |-> o.reasons, kind |-> kind]

\* IterationOutcome(...).
IterationOutcome(i, a, c, o) ==
    [iteration |-> i, attempt |-> a, rc |-> c, failing_layers |-> o.failing_layers,
     classification |-> o.classification, action |-> o.action]

\* Variant: the summary line leaves the action out.
SummaryLineNoAction(o) ==
    [iteration |-> o.iteration, attempt |-> o.attempt, rc |-> o.rc,
     failing_layers |-> o.failing_layers, classification |-> o.classification,
     action |-> ""]

\* json.dumps(outcome.to_dict(), sort_keys=True): one line of the summary log.
SummaryLine(o) ==
    [iteration |-> o.iteration, attempt |-> o.attempt, rc |-> o.rc,
     failing_layers |-> o.failing_layers, classification |-> o.classification,
     action |-> o.action]

\* The payload _write_alert writes to iter_dir / "alert.json".
AlertPayload(kind, i, a, c, o, rep) ==
    [kind |-> kind, iteration |-> i, attempt |-> a, rc |-> c, reasons |-> o.reasons,
     failing_layers |-> o.failing_layers, report_present |-> rep.present]

\* _write_alert: write_text replaces what the path held.
WriteAlert(files, payload) ==
    {f \in files : f.iteration # payload.iteration \/ f.attempt # payload.attempt}
       \cup {payload}

\* Variant: a HARD_FAIL is handled like a soft failure.
IsHardFailNever(cls) == FALSE

\* if classification == "HARD_FAIL"
IsHardFail(cls) == cls = "HARD_FAIL"

\* Variant: the retries count as used up one attempt early.
ExhaustedEarly(a, cfg) == a >= cfg.max_retries

\* if attempt > args.max_retries
Exhausted(a, cfg) == a > cfg.max_retries

\* The checks main makes on its arguments.
ValidConfig(cfg) == cfg.iterations > 0 /\ cfg.max_retries >= 0

\* main up to the for loop: argument checks (SystemExit with a message is
\* exit status 1), the "loop_start" event.
Begin ==
    /\ lpc = "start"
    /\ IF ValidConfig(config)
       THEN /\ events' = Append(events, LoopEvent("loop_start", 0, 0, 0, NoOutcome, ""))
            /\ iteration' = 1
            /\ attempt' = 0
            /\ lpc' = "run"
            /\ UNCHANGED exitCode
       ELSE /\ lpc' = "exited"
            /\ exitCode' = 1
            /\ UNCHANGED <<events, iteration, attempt>>
    /\ UNCHANGED <<ledgerVars, engineVars, policy, report, rc, outcome, config, engine, outcomes,
                   summary, alerts>>

\* attempt += 1; rc, report, stderr = run_engine_once(...)
RunEngine ==
    /\ lpc = "run"
    /\ attempt' = attempt + 1
    /\ rc' = EngineRun(engine, Len(outcomes) + 1).rc
    /\ report' = EngineRun(engine, Len(outcomes) + 1).report
    /\ outcome' = NoOutcome
    /\ lpc' = "classify"
    /\ UNCHANGED <<ledgerVars, engineVars, policy, config, engine, iteration, outcomes, summary,
                   events, alerts, exitCode>>

\* failing_layers, _classify, outcomes.append, the line of the summary log.
Record ==
    /\ lpc = "classify"
    /\ LET o == AttemptOutcome(report, rc, policy)
           rec == IterationOutcome(iteration, attempt, rc, o)
       IN /\ outcome' = o
          /\ outcomes' = Append(outcomes, rec)
          /\ summary' = Append(summary, SummaryLine(rec))
    /\ lpc' = "log"
    /\ UNCHANGED <<ledgerVars, engineVars, policy, report, rc, config, engine, iteration, attempt,
                   events, alerts, exitCode>>

\* ledger.append("meta", "loop_iteration", {...})
LogIteration ==
    /\ lpc = "log"
    /\ events' = Append(events,
                        LoopEvent("loop_iteration", iteration, attempt, rc, outcome, ""))
    /\ lpc' = "decide"
    /\ UNCHANGED <<ledgerVars, engineVars, policy, report, rc, outcome, config, engine, iteration,
                   attempt, outcomes, summary, alerts, exitCode>>

\* Variant: a break leaves the for loop as well.
BreakEndsLoop == lpc' = "end" /\ UNCHANGED <<iteration, attempt>>

\* break: the next iteration, or the end of the for loop.
Break ==
    IF iteration < config.iterations
    THEN iteration' = iteration + 1 /\ attempt' = 0 /\ lpc' = "run"
    ELSE lpc' = "end" /\ UNCHANGED <<iteration, attempt>>

\* if args.emit_alerts: _write_alert(...); ledger.append("meta", "loop_alert", ...)
Alert(kind) ==
    IF config.emit_alerts
    THEN /\ alerts' = WriteAlert(alerts, AlertPayload(kind, iteration, attempt, rc,
                                                      outcome, report))
         /\ events' = Append(events,
                             LoopEvent("loop_alert", iteration, attempt, rc, outcome, kind))
    ELSE UNCHANGED <<alerts, events>>

\* The rest of the body of the while loop, after the ledger event.
Decide ==
    /\ lpc = "decide"
    /\ IF rc = 0
       THEN Break /\ UNCHANGED <<alerts, events>>
       ELSE IF IsHardFail(outcome.classification)
       THEN Alert("HARD_FAIL") /\ Break
       ELSE IF Exhausted(attempt, config)
       THEN Alert("SOFT_FAIL_EXHAUSTED") /\ Break
       ELSE lpc' = "run" /\ UNCHANGED <<iteration, attempt, alerts, events>>
    /\ UNCHANGED <<ledgerVars, engineVars, policy, report, rc, outcome, config, engine, outcomes,
                   summary, exitCode>>

\* Variant: only the last engine run of the loop counts.
ExitCodeOfLastRun(cfg, outs) ==
    IF cfg.gated /\ outs # <<>> /\ outs[Len(outs)].rc # 0 THEN 1 ELSE 0

\* if args.gated and any(o.rc != 0 and o.attempt >= 1 for o in outcomes): 1, else 0
ExitCode(cfg, outs) ==
    IF cfg.gated /\ \E k \in DOMAIN outs : outs[k].rc # 0 /\ outs[k].attempt >= 1
    THEN 1 ELSE 0

\* After the for loop: the "loop_end" event and the exit code.
End ==
    /\ lpc = "end"
    /\ events' = Append(events, LoopEvent("loop_end", 0, 0, 0, NoOutcome, ""))
    /\ exitCode' = ExitCode(config, outcomes)
    /\ lpc' = "exited"
    /\ UNCHANGED <<ledgerVars, engineVars, policy, report, rc, outcome, config, engine, iteration,
                   attempt, outcomes, summary, alerts>>

\* main called with some arguments, some policy and some engine.
InitLoop ==
    /\ fileExists = FALSE
    /\ file = <<>>
    /\ eofNewline = TRUE
    /\ InitWriters
    /\ EngineIdle
    /\ policy \in LoopPolicies
    /\ config \in Configs
    /\ engine \in Scripts
    /\ report = NoReport
    /\ rc = 0
    /\ outcome = NoOutcome
    /\ lpc = "start"
    /\ iteration = 0
    /\ attempt = 0
    /\ outcomes = <<>>
    /\ summary = <<>>
    /\ events = <<>>
    /\ alerts = {}
    /\ exitCode = -1

NextLoop ==
    \/ Begin
    \/ RunEngine
    \/ Record
    \/ LogIteration
    \/ Decide
    \/ End

SpecLoop == InitLoop /\ [][NextLoop]_vars

\* ------------------------------------------------- claims on the loop runner

\* Iteration i has run all its attempts.
IterationOver(i) ==
    i >= 1 /\ (i < iteration \/ (i = iteration /\ lpc \in {"end", "exited"}))

\* The recorded outcomes of iteration i, in order.
OutcomesOf(i) ==
    LET Mine(o) == o.iteration = i IN SelectSeq(outcomes, Mine)

\* The ledger events of one type of iteration i, in order.
EventsOf(type, i) ==
    LET Mine(e) == e.type = type /\ e.iteration = i IN SelectSeq(events, Mine)

AlertsOf(i) == {f \in alerts : f.iteration = i}

\* The step of Decide that leads to a further attempt of the same iteration.
Retries == Decide /\ lpc' = "run" /\ iteration' = iteration

\* What the policy in force makes of the engine's n-th run.
EngineClass(n) ==
    Classify(EngineRun(engine, n).report, EngineRun(engine, n).rc, policy).classification

\* The engine runs made before iteration i began.
RunsBefore(i) ==
    LET Earlier(o) == o.iteration < i IN Len(SelectSeq(outcomes, Earlier))

\* C16: an iteration makes at least 1 and at most max_retries + 1 attempts; a
\* soft-failed attempt is followed by another one exactly when the attempts
\* made so far are <= max_retries; with max_retries = 2 and an engine that
\* soft-fails on attempts 1 and 2 and succeeds on attempt 3 the iteration ends
\* PASS on attempt 3 with exactly 3 "loop_iteration" events.
C16_RetriesBounded ==
    /\ [](/\ attempt <= config.max_retries + 1 \/ lpc = "start"
          /\ \A i \in 1..MaxIterations :
                IterationOver(i)
                   => /\ Len(OutcomesOf(i)) >= 1
                      /\ Len(OutcomesOf(i)) <= config.max_retries + 1
                      /\ /\ config.max_retries = 2
                         /\ EngineClass(RunsBefore(i) + 1) = "SOFT_FAIL"
                         /\ EngineClass(RunsBefore(i) + 2) = "SOFT_FAIL"
                         /\ EngineRun(engine, RunsBefore(i) + 3).rc = 0
                         => /\ Len(OutcomesOf(i)) = 3
                            /\ OutcomesOf(i)[3].classification = "PASS"
                            /\ OutcomesOf(i)[3].attempt = 3
                            /\ Len(EventsOf("loop_iteration", i)) = 3)
    /\ [][Decide /\ outcome.classification = "SOFT_FAIL"
             => (Retries <=> attempt <= config.max_retries)]_vars

\* Two soft failures and a success, with two retries allowed, are over.
C16_Witness ==
    /\ lpc = "exited"
    /\ config.max_retries = 2
    /\ Len(outcomes) = 3
    /\ outcomes[1].classification = "SOFT_FAIL"
    /\ outcomes[2].classification = "SOFT_FAIL"
    /\ outcomes[3].classification = "PASS"
    /\ Len(EventsOf("loop_iteration", 1)) = 3

\* C17: a further attempt of the same iteration comes only after an attempt
\* recorded as SOFT_FAIL; an attempt recorded as PASS or HARD_FAIL is the last
\* one of its iteration.
C17_RetryOnlyAfterSoftFail ==
    [][/\ Retries => outcome.classification = "SOFT_FAIL"
       /\ Decide /\ outcome.classification \in {"PASS", "HARD_FAIL"}
             => iteration' # iteration \/ lpc' = "end"]_vars

\* C18: with alerts enabled and an engine every attempt of which is
\* HARD_FAIL, each iteration makes exactly one attempt and leaves exactly one
\* alert file and one "loop_alert" event, whatever max_retries is; and no
\* iteration of any run leaves more than one alert.
C18_OneAlertPerIteration ==
    \A i \in 1..MaxIterations :
       /\ Cardinality(AlertsOf(i)) <= 1
       /\ Len(EventsOf("loop_alert", i)) <= 1
       /\ /\ IterationOver(i)
          /\ config.emit_alerts
          /\ \A n \in DOMAIN engine : EngineClass(n) = "HARD_FAIL"
          => /\ Len(OutcomesOf(i)) = 1
             /\ Cardinality(AlertsOf(i)) = 1
             /\ Len(EventsOf("loop_alert", i)) = 1

\* A run of two iterations with retries allowed, alerts enabled and an engine
\* that is HARD_FAIL throughout is over.
C18_Witness ==
    /\ lpc = "exited"
    /\ config.emit_alerts
    /\ config.max_retries >= 1
    /\ config.iterations = 2
    /\ \A n \in DOMAIN engine : EngineClass(n) = "HARD_FAIL"
    /\ Cardinality(alerts) = 2
    /\ Len(outcomes) = 2

\* The k-th line of the summary and the k-th "loop_iteration" event.
IterationEvents == LET Mine(e) == e.type = "loop_iteration" IN SelectSeq(events, Mine)

SameAttempt(line, e) ==
    /\ line.iteration = e.iteration
    /\ line.attempt = e.attempt
    /\ line.rc = e.rc
    /\ line.classification = e.classification
    /\ line.action = e.action

\* C19: every attempt, whatever its outcome and with or without alerts, adds
\* one line to the summary log and one "loop_iteration" event to the ledger,
\* with the same iteration, attempt, return code, classification and action;
\* once an attempt is finished there are as many summary lines as
\* "loop_iteration" events, one per attempt made.
C19_SummaryMatchesLedger ==
    /\ Len(summary) = Len(outcomes)
    /\ \A k \in DOMAIN IterationEvents :
          /\ k \in DOMAIN summary
          /\ SameAttempt(summary[k], IterationEvents[k])
          /\ SameAttempt(outcomes[k], IterationEvents[k])
    /\ \A k \in DOMAIN summary : \A j \in DOMAIN summary :
          summary[k].iteration = summary[j].iteration
             /\ summary[k].attempt = summary[j].attempt => k = j
    /\ lpc = "log" => Len(IterationEvents) + 1 = Len(summary)
    /\ lpc # "log" => Len(IterationEvents) = Len(summary)
    /\ lpc \in {"decide", "log"}
          => /\ summary[Len(summary)].iteration = iteration
             /\ summary[Len(summary)].attempt = attempt
             /\ summary[Len(summary)].rc = rc
             /\ summary[Len(summary)].classification = outcome.classification
             /\ summary[Len(summary)].action = outcome.action

\* A run without alerts that made a failed and a passed attempt is over.
C19_Witness ==
    /\ lpc = "exited"
    /\ ~config.emit_alerts
    /\ Len(summary) >= 3
    /\ \E k \in DOMAIN summary : summary[k].classification = "HARD_FAIL"
    /\ \E k \in DOMAIN summary : summary[k].classification = "SOFT_FAIL"
    /\ \E k \in DOMAIN summary : summary[k].classification = "PASS"

\* The recorded outcome an alert or alert event belongs to.
AlertedOutcomes(a) ==
    {k \in DOMAIN outcomes :
        outcomes[k].iteration = a.iteration /\ outcomes[k].attempt = a.attempt}

AlertJustified(a) ==
    /\ config.emit_alerts
    /\ AlertedOutcomes(a) # {}
    /\ \A k \in AlertedOutcomes(a) :
          /\ outcomes[k].classification # "PASS"
          /\ \/ outcomes[k].classification = "HARD_FAIL"
             \/ /\ outcomes[k].classification = "SOFT_FAIL"
                /\ outcomes[k].attempt > config.max_retries
          /\ \A j \in DOMAIN outcomes :
                outcomes[j].iteration = a.iteration => outcomes[j].attempt <= a.attempt

\* C20: an alert file and a "loop_alert" event exist only with alerts enabled
\* and for an attempt recorded as HARD_FAIL, or as SOFT_FAIL with the retries
\* used up; never for an attempt recorded as PASS; and they carry the
\* iteration and attempt of the last attempt of the iteration.
C20_AlertsOnlyForFailures ==
    /\ \A f \in alerts : AlertJustified(f)
    /\ \A k \in DOMAIN events : events[k].type = "loop_alert" => AlertJustified(events[k])
    /\ \A k \in DOMAIN events :
          events[k].type = "loop_alert"
             => \E f \in alerts :
                   f.iteration = events[k].iteration /\ f.attempt = events[k].attempt

\* The last recorded attempt of iteration i.
FinalOutcome(i) == OutcomesOf(i)[Len(OutcomesOf(i))]

\* main has returned after running its loop.
LoopOver == lpc = "exited" /\ ValidConfig(config)

\* C21: in gated mode, when the last attempt of some iteration was not
\* PASS, the loop runner exits with a nonzero status.
C21_GatedFailureExitsNonzero ==
    /\ LoopOver
    /\ config.gated
    /\ \E i \in 1..config.iterations : FinalOutcome(i).classification # "PASS"
    => exitCode # 0

\* A gated run whose first iteration failed and whose second one passed.
C21_Witness ==
    /\ LoopOver
    /\ config.gated
    /\ config.iterations = 2
    /\ FinalOutcome(1).classification # "PASS"
    /\ FinalOutcome(2).classification = "PASS"
    /\ exitCode = 1

\* C28: the exit status is nonzero only in gated mode and only when the last
\* attempt of some iteration had a nonzero return code; a gated run whose
\* iterations all end with return code 0, also after soft failures that a
\* retry made good, exits 0, and so does every run that is not gated.
C28_ExitNonzeroOnlyOnFailedIteration ==
    LoopOver
       => /\ exitCode # 0
             => /\ config.gated
                /\ \E i \in 1..config.iterations : FinalOutcome(i).rc # 0
          /\ ~config.gated => exitCode = 0

\* C30: a run makes exactly the configured number of iterations, numbered
\* from 1, each with attempts numbered from 1 without gaps, whatever the
\* outcome of the iterations before; of the runner's ledger events the first is
\* the one loop_start, the last the one loop_end, and a loop_alert comes right
\* after the loop_iteration of the same iteration and attempt.
C30_IterationsAndEventOrder ==
    /\ outcomes # <<>> => outcomes[1].iteration = 1 /\ outcomes[1].attempt = 1
    /\ \A k \in DOMAIN outcomes :
          /\ outcomes[k].iteration \in 1..config.iterations
          /\ k > 1 => \/ /\ outcomes[k].iteration = outcomes[k - 1].iteration
                         /\ outcomes[k].attempt = outcomes[k - 1].attempt + 1
                      \/ /\ outcomes[k].iteration = outcomes[k - 1].iteration + 1
                         /\ outcomes[k].attempt = 1
    /\ LoopOver => /\ \A i \in 1..config.iterations : OutcomesOf(i) # <<>>
                   /\ events[Len(events)].type = "loop_end"
    /\ \A k \in DOMAIN events :
          /\ events[k].type = "loop_start" <=> k = 1
          /\ events[k].type = "loop_end" => k = Len(events) /\ lpc = "exited"
          /\ events[k].type = "loop_alert"
                => /\ events[k - 1].type = "loop_iteration"
                   /\ events[k - 1].iteration = events[k].iteration
                   /\ events[k - 1].attempt = events[k].attempt

\* A run of two iterations whose first one ended in a HARD_FAIL alert and whose
\* second one needed a retry.
C30_Witness ==
    /\ LoopOver
    /\ config.iterations = 2
    /\ FinalOutcome(1).classification = "HARD_FAIL"
    /\ Len(EventsOf("loop_alert", 1)) = 1
    /\ Len(OutcomesOf(2)) = 2

\* ------------------------------------------------------ loading a policy

\* policy = ClassificationPolicy.load(policy_path)
LoadPolicy(src) ==
    /\ policySource = NoSource
    /\ policySource' = src
    /\ policy' = Load(src)
    /\ UNCHANGED <<ledgerVars, report, rc, outcome, lpc, config, engine, iteration,
                   attempt, outcomes, summary, events, alerts, exitCode,
                   env, epc, results, score, erc, stdout, parsed>>

NextPolicy == \E src \in PolicySources : LoadPolicy(src)

SpecPolicy == Init /\ [][NextPolicy]_vars

\* The strings of a list value that count: stripped and not empty.
GivenItems(value) ==
    {Strip(value.items[i]) : i \in DOMAIN value.items} \ {""}

\* A list-valued key holds a usable value.
ValidList(value) == value.kind = "list" /\ GivenItems(value) # {}

\* A text-valued key names a classification.
ValidText(value) ==
    value.kind = "str" /\ Upper(Strip(value.text)) \in {"PASS", "SOFT_FAIL", "HARD_FAIL"}

\* C22: each key of a policy file is taken on its own: an absent or invalid
\* value gives that key its default, a valid value is kept, and an invalid
\* value of one key changes nothing for the other keys.
C22_PolicyKeysIndependent ==
    policySource.kind = "dict"
       => LET f == policySource.obj IN
          /\ policy.hard_layers_on_degraded =
                IF ValidList(f.hard_layers_on_degraded)
                THEN {Lower(x) : x \in GivenItems(f.hard_layers_on_degraded)}
                ELSE Defaults.hard_layers_on_degraded
          /\ policy.hard_statuses =
                IF ValidList(f.hard_statuses)
                THEN {Upper(x) : x \in GivenItems(f.hard_statuses)}
                ELSE Defaults.hard_statuses
          /\ policy.soft_statuses =
                IF ValidList(f.soft_statuses)
                THEN {Upper(x) : x \in GivenItems(f.soft_statuses)}
                ELSE Defaults.soft_statuses
          /\ policy.treat_missing_report_as =
                IF ValidText(f.treat_missing_report_as)
                THEN Upper(Strip(f.treat_missing_report_as.text))
                ELSE Defaults.treat_missing_report_as
          /\ policy.treat_missing_layers_as =
                IF ValidText(f.treat_missing_layers_as)
                THEN Upper(Strip(f.treat_missing_layers_as.text))
                ELSE Defaults.treat_missing_layers_as

\* ------------------------------------------------------------- the score

MaxScoreLayers == 3
MaxHeavyLayers == 8

\* The statuses the checkers give their layers.
EngineStatuses ==
    {"STABLE", "DEGRADED", "WARNING", "OVERLOADED", "STRAINED", "CORRUPTED", "INTACT",
     "UNKNOWN"}

\* Keys of latest_by_layer: the engine's six layers, then any others.
ScoreLayerNames ==
    <<"physical", "digital", "codex", "cognitive", "collaborative", "meta",
      "layer7", "layer8", "layer9", "layer10">>

\* A dict of LayerResult with the statuses given, in insertion order.
ResultsOf(statuses) ==
    [i \in DOMAIN statuses |->
        [layer |-> ScoreLayerNames[i], status |-> statuses[i], tcp |-> FALSE]]

SeqsUpTo(S, n) == UNION {[1..k -> S] : k \in 0..n}

\* The dicts the score is computed for: every short one, and the long ones
\* that are heavy enough to bring stability below zero.
ScoreInputs ==
    {ResultsOf(st) : st \in SeqsUpTo(EngineStatuses, MaxScoreLayers)
                           \cup [1..MaxHeavyLayers -> {"OVERLOADED", "DEGRADED"}]}

\* Variant: a CORRUPTED layer counts like a DEGRADED one.
StatusPointsCorrupted(status) ==
    CASE status = "DEGRADED"   -> 10
      [] status = "CORRUPTED"  -> 10
      [] status = "WARNING"    -> 5
      [] status = "OVERLOADED" -> 15
      [] OTHER                 -> 0

\* The if / elif chain in the body of the loop.
StatusPoints(status) ==
    CASE status = "DEGRADED"   -> 10
      [] status = "WARNING"    -> 5
      [] status = "OVERLOADED" -> 15
      [] OTHER                 -> 0

\* dangerous_freedom after the first n items of the dict.
RECURSIVE DangerousFreedom(_, _)
DangerousFreedom(latest, n) ==
    IF n = 0 THEN 0
    ELSE DangerousFreedom(latest, n - 1) + StatusPoints(latest[n].status)

ComputeSovereignScore(latest) ==
    LET total_capability == 100
        dangerous_freedom == DangerousFreedom(latest, Len(latest))
    IN  [total_capability |-> total_capability,
         dangerous_freedom |-> dangerous_freedom,
         stability |-> total_capability - dangerous_freedom]

\* score = compute_sovereign_score(results)
ComputeScore ==
    /\ epc = "score"
    /\ score' = ComputeSovereignScore(results)
    /\ epc' = "scored"
    /\ UNCHANGED <<ledgerVars, policy, report, rc, outcome, lpc, config, engine,
                   iteration, attempt, outcomes, summary, events, alerts, exitCode,
                   policySource, env, results, erc, stdout, parsed>>

InitScore ==
    /\ fileExists = FALSE
    /\ file = <<>>
    /\ eofNewline = TRUE
    /\ InitWriters
    /\ policy = Defaults
    /\ report = NoReport
    /\ rc = 0
    /\ outcome = NoOutcome
    /\ lpc = "idle"
    /\ config = NoConfig
    /\ engine = <<>>
    /\ iteration = 0
    /\ attempt = 0
    /\ outcomes = <<>>
    /\ summary = <<>>
    /\ events = <<>>
    /\ alerts = {}
    /\ exitCode = -1
    /\ policySource = NoSource
    /\ env = NoEnv
    /\ epc = "score"
    /\ results \in ScoreInputs
    /\ score = NoScore
    /\ erc = -1
    /\ stdout = <<>>
    /\ parsed = NoParse

NextScore == ComputeScore

SpecScore == InitScore /\ [][NextScore]_vars

\* How many layers of the dict have the status.
LayersWith(status) == Cardinality({i \in DOMAIN results : results[i].status = status})

\* The dict with items i and i + 1 in the other order.
Swapped(latest, i) ==
    [k \in DOMAIN latest |->
        IF k = i THEN latest[i + 1] ELSE IF k = i + 1 THEN latest[i] ELSE latest[k]]

\* C23: the score is total_capability 100, dangerous_freedom 10 per DEGRADED
\* plus 5 per WARNING plus 15 per OVERLOADED layer and nothing for any other
\* status, stability 100 - dangerous_freedom even when that is negative; the
\* order of the layers does not matter; all STABLE gives 100, 0, 100, and one
\* DEGRADED with one WARNING gives 15 and 85.
C23_ScoreIsWeightedCount ==
    epc = "scored"
       => /\ score.total_capability = 100
          /\ score.dangerous_freedom =
                10 * LayersWith("DEGRADED") + 5 * LayersWith("WARNING")
                   + 15 * LayersWith("OVERLOADED")
          /\ score.stability = 100 - score.dangerous_freedom
          /\ \A i \in 1..(Len(results) - 1) :
                ComputeSovereignScore(Swapped(results, i)) = score
          /\ LayersWith("STABLE") = Len(results)
                => score = [total_capability |-> 100, dangerous_freedom |-> 0,
                            stability |-> 100]
          /\ (LayersWith("DEGRADED") = 1 /\ LayersWith("WARNING") = 1 /\ Len(results) = 2)
                => score.dangerous_freedom = 15 /\ score.stability = 85

\* A dict of DEGRADED and OVERLOADED layers heavy enough that dangerous_freedom
\* is above 100 and stability below zero.
C23_Witness ==
    /\ epc = "scored"
    /\ score.dangerous_freedom > 100
    /\ score.stability < 0
    /\ LayersWith("DEGRADED") > 0
    /\ LayersWith("OVERLOADED") > 0

\* ----------------------------------------------------------- the checkers

MaxRating == 6

\* --rating: absent, or any integer (argparse type=int, no choices).
Ratings ==
    {[given |-> FALSE, value |-> 0]}
        \cup {[given |-> TRUE, value |-> v] : v \in -1..MaxRating}

\* What which and _run find for a tool: no such program, or its exit status
\* zero or not.
ToolStates == {"absent", "ok", "failing"}

\* The required Codex files: all there, one missing, or one unreadable.
CodexStates == {"all", "missing", "unreadable"}

\* The arguments of a check and what its probes find.
Envs ==
    [offline : BOOLEAN, gated : {FALSE}, rating : Ratings, nas_host : BOOLEAN,
     net_ok : BOOLEAN, nas_ok : BOOLEAN, cloud_ok : BOOLEAN, tailscale : ToolStates,
     codex_dir : BOOLEAN, git : ToolStates, docker : BOOLEAN, codex_files : CodexStates]

\* status = "WARNING" if status in {"STABLE", "UNKNOWN"} else status
WarnIfUnset(status) == IF status \in {"STABLE", "UNKNOWN"} THEN "WARNING" ELSE status

CheckPhysical(e) ==
    LET network == IF e.offline THEN "UNKNOWN"
                   ELSE IF e.net_ok THEN "STABLE" ELSE "DEGRADED"
    IN  [layer |-> "physical",
         status |-> IF e.tailscale = "ok" THEN network ELSE WarnIfUnset(network),
         tcp |-> ~e.offline]

CheckDigital(e) ==
    LET codex == IF e.codex_dir THEN "STABLE" ELSE "DEGRADED"
        git == IF e.git = "ok" THEN codex ELSE "DEGRADED"
    IN  [layer |-> "digital",
         status |-> IF e.docker /\ git = "STABLE" THEN "WARNING" ELSE git,
         tcp |-> FALSE]

CheckCodexIntegrity(e) ==
    [layer |-> "codex",
     status |-> IF ~e.codex_dir THEN "DEGRADED"
                ELSE CASE e.codex_files = "missing"    -> "DEGRADED"
                       [] e.codex_files = "unreadable" -> "WARNING"
                       [] OTHER                        -> "STABLE",
     tcp |-> FALSE]

CheckCognitive(rating) ==
    [layer |-> "cognitive",
     status |-> IF ~rating.given THEN "UNKNOWN"
                ELSE IF rating.value <= 2 THEN "OVERLOADED"
                ELSE IF rating.value = 3 THEN "STRAINED"
                ELSE IF rating.value >= 4 THEN "STABLE"
                ELSE "UNKNOWN",
     tcp |-> FALSE]

CheckCollaborative(e) ==
    LET nas == IF e.offline THEN "UNKNOWN"
               ELSE IF e.nas_host THEN (IF e.nas_ok THEN "STABLE" ELSE "DEGRADED")
               ELSE "UNKNOWN"
    IN  [layer |-> "collaborative",
         status |-> IF e.offline THEN nas
                    ELSE IF ~e.cloud_ok /\ nas = "STABLE" THEN "DEGRADED" ELSE nas,
         tcp |-> ~e.offline]

\* One of the checks that look at the machine, called on its own.
Checked(result) ==
    /\ epc = "check"
    /\ results' = <<result>>
    /\ epc' = "checked"
    /\ UNCHANGED <<ledgerVars, policy, report, rc, outcome, lpc, config, engine,
                   iteration, attempt, outcomes, summary, events, alerts, exitCode,
                   policySource, env, score, erc, stdout, parsed>>

Physical == Checked(CheckPhysical(env))
Digital == Checked(CheckDigital(env))
Codex == Checked(CheckCodexIntegrity(env))
Cognitive == Checked(CheckCognitive(env.rating))
Collaborative == Checked(CheckCollaborative(env))

InitCheckers ==
    /\ fileExists = FALSE
    /\ file = <<>>
    /\ eofNewline = TRUE
    /\ InitWriters
    /\ policy = Defaults
    /\ report = NoReport
    /\ rc = 0
    /\ outcome = NoOutcome
    /\ lpc = "idle"
    /\ config = NoConfig
    /\ engine = <<>>
    /\ iteration = 0
    /\ attempt = 0
    /\ outcomes = <<>>
    /\ summary = <<>>
    /\ events = <<>>
    /\ alerts = {}
    /\ exitCode = -1
    /\ policySource = NoSource
    /\ env \in Envs
    /\ epc = "check"
    /\ results = <<>>
    /\ score = NoScore
    /\ erc = -1
    /\ stdout = <<>>
    /\ parsed = NoParse

NextCheckers ==
    \/ Physical
    \/ Digital
    \/ Codex
    \/ Cognitive
    \/ Collaborative

SpecCheckers == InitCheckers /\ [][NextCheckers]_vars

\* The result of the one check that ran, if it was the named one.
ResultOf(layer) == epc = "checked" /\ results[1].layer = layer

\* C25: check_cognitive gives OVERLOADED for a rating of 1 or 2, STRAINED for
\* 3, STABLE for 4 or 5, and UNKNOWN when the rating is absent or outside 1..5
\* (0, a negative number, 6).
C25_CognitiveTiers ==
    ResultOf("cognitive")
       => LET r == env.rating IN
          results[1].status =
             IF ~r.given \/ r.value < 1 \/ r.value > 5 THEN "UNKNOWN"
             ELSE IF r.value <= 2 THEN "OVERLOADED"
             ELSE IF r.value = 3 THEN "STRAINED"
             ELSE "STABLE"

\* C26: in offline mode check_physical and check_collaborative return UNKNOWN
\* and call no network probe, whatever tools and peers the machine has.
C26_OfflineIsUnknown ==
    (env.offline /\ (ResultOf("physical") \/ ResultOf("collaborative")))
       => results[1].status = "UNKNOWN" /\ ~results[1].tcp

\* ----------------------------------------------- reading the run report

MaxTokens == 6

\* Captured output as a sequence of tokens: white space, text that is not
\* JSON and holds no brace, the braces, a key with its colon, a scalar value,
\* and the comma.
Tokens == {"ws", "noise", "{", "}", "k", "v", ","}

Outputs == SeqsUpTo(Tokens, MaxTokens)

\* The first position from i on that holds no white space.
RECURSIVE SkipWs(_, _)
SkipWs(text, i) ==
    IF i <= Len(text) /\ text[i] = "ws" THEN SkipWs(text, i + 1) ELSE i

\* The JSON decoder: the position after the value that starts at i, or 0
\* where the decoder raises JSONDecodeError.
RECURSIVE ParseValue(_, _)
RECURSIVE ParseMembers(_, _)
ParseValue(text, i) ==
    IF i > Len(text) THEN 0
    ELSE IF text[i] = "v" THEN i + 1
    ELSE IF text[i] = "{"
         THEN LET j == SkipWs(text, i + 1)
              IN  IF j <= Len(text) /\ text[j] = "}" THEN j + 1
                  ELSE ParseMembers(text, j)
    ELSE 0

\* The members of an object from i on, up to and including its closing brace.
ParseMembers(text, i) ==
    IF i > Len(text) \/ text[i] # "k" THEN 0
    ELSE LET j == ParseValue(text, SkipWs(text, i + 1))
         IN  IF j = 0 THEN 0
             ELSE LET k == SkipWs(text, j)
                  IN  IF k > Len(text) THEN 0
                      ELSE IF text[k] = "}" THEN k + 1
                      ELSE IF text[k] = "," THEN ParseMembers(text, SkipWs(text, k + 1))
                      ELSE 0

\* The value a text denotes: its tokens without the white space.
Decoded(text) == SelectSeq(text, LAMBDA t : t # "ws")

None == [ok |-> FALSE, value |-> <<>>]

\* json.loads: the one value the whole text holds; not ok for JSONDecodeError
\* (no value, or extra data after it).
JsonLoads(text) ==
    LET i == SkipWs(text, 1)
        j == ParseValue(text, i)
    IN  IF j # 0 /\ SkipWs(text, j) > Len(text)
        THEN [ok |-> TRUE, value |-> Decoded(SubSeq(text, i, j - 1))]
        ELSE None

\* str.strip()
RECURSIVE StripText(_)
StripText(text) ==
    IF text = <<>> THEN text
    ELSE IF Head(text) = "ws" THEN StripText(Tail(text))
    ELSE IF text[Len(text)] = "ws" THEN StripText(SubSeq(text, 1, Len(text) - 1))
    ELSE text

\* str.rfind("{"): the last position of a brace, 0 for none.
RFindBrace(text) ==
    LET at == {i \in DOMAIN text : text[i] = "{"}
    IN  IF at = {} THEN 0 ELSE CHOOSE i \in at : \A j \in at : j <= i

ParseRunReportText(stdout_text) ==
    LET text == StripText(stdout_text)
    IN  IF text = <<>> THEN None
        ELSE IF JsonLoads(text).ok THEN JsonLoads(text)
        ELSE LET last_brace == RFindBrace(text)
             IN  IF last_brace >= 1
                 THEN JsonLoads(SubSeq(text, last_brace, Len(text)))
                 ELSE None

\* report = _parse_run_report(proc.stdout)
ParseRunReport ==
    /\ epc = "parse"
    /\ parsed' = ParseRunReportText(stdout)
    /\ epc' = "parsed"
    /\ UNCHANGED <<ledgerVars, policy, report, rc, outcome, lpc, config, engine,
                   iteration, attempt, outcomes, summary, events, alerts, exitCode,
                   policySource, env, results, score, erc, stdout>>

InitParse ==
    /\ fileExists = FALSE
    /\ file = <<>>
    /\ eofNewline = TRUE
    /\ InitWriters
    /\ policy = Defaults
    /\ report = NoReport
    /\ rc = 0
    /\ outcome = NoOutcome
    /\ lpc = "idle"
    /\ config = NoConfig
    /\ engine = <<>>
    /\ iteration = 0
    /\ attempt = 0
    /\ outcomes = <<>>
    /\ summary = <<>>
    /\ events = <<>>
    /\ alerts = {}
    /\ exitCode = -1
    /\ policySource = NoSource
    /\ env = NoEnv
    /\ epc = "parse"
    /\ results = <<>>
    /\ score = NoScore
    /\ erc = -1
    /\ stdout \in Outputs
    /\ parsed = NoParse

NextParse == ParseRunReport

SpecParse == InitParse /\ [][NextParse]_vars

\* The output is text that is not JSON up to position i, and from i on
\* exactly one JSON object.
ReportAt(i) ==
    /\ i \in DOMAIN stdout
    /\ \A j \in 1..(i - 1) : stdout[j] \in {"noise", "ws"}
    /\ stdout[i] = "{"
    /\ ParseValue(stdout, i) # 0
    /\ SkipWs(stdout, ParseValue(stdout, i)) > Len(stdout)

\* C24: for captured output made of text that is not JSON followed by one
\* top-level JSON object, nested objects included, the parser returns that
\* object (and so returns None only when there is no such object).
C24_ParserToleratesNoise ==
    epc = "parsed"
       => \A i \in DOMAIN stdout :
             ReportAt(i)
                => /\ parsed.ok
                   /\ parsed.value = Decoded(SubSeq(stdout, i, Len(stdout)))

\* ------------------------------------------- appends under fair scheduling

\* A call that returns and a call whose entry cannot be serialised.
FairArgs == {SoloArgs, [SoloArgs EXCEPT !.data = Unserialisable]}

\* Two writers on a fresh ledger, or on a file whose only line makes the
\* scan raise.
InitFair ==
    /\ \/ fileExists = FALSE /\ file = <<>>
       \/ fileExists = TRUE /\ file = <<OtherLine("scalar")>>
    /\ eofNewline = TRUE
    /\ InitWriters
    /\ LoopIdle

NextFair ==
    \/ \E w \in Writers : AppendStep(w, FairArgs)
    \/ \E w \in Writers : Raise(w)

\* Every process that can take its next step takes it in the end; flock
\* returns once the lock stays free.
Fairness ==
    \A w \in Writers :
        /\ WF_vars(Lock(w))
        /\ WF_vars(Scan(w))
        /\ WF_vars(Write(w))
        /\ WF_vars(Return(w))
        /\ WF_vars(Raise(w))

SpecFair == InitFair /\ [][NextFair]_vars /\ Fairness

\* C29: the lock is released on every way out of the critical section, also
\* when the scan or the serialisation of the entry raises: a writer outside
\* append never holds the lock, and every append that started returns or
\* raises in the end.
C29_LockAlwaysReleased ==
    /\ [](\A w \in Writers : pc[w] \in {"idle", "opened"} => lock # w)
    /\ \A w \in Writers : (pc[w] # "idle") ~> (pc[w] = "idle")

\* One writer's append raised TypeError inside the critical section, and the
\* other writer holds the lock now.
C29_Witness ==
    \E w, v \in Writers :
        /\ w # v
        /\ pc[w] = "idle"
        /\ ret[w] = TypeError
        /\ lock = v
        /\ pc[v] = "scanned"

\* ------------------------------------------------------- one engine run

\* The layers the engine writes to.
EngineLayers == {"meta", "physical", "digital", "codex", "cognitive", "collaborative"}
EngineNoHash == [l \in EngineLayers |-> EmptyStr]

\* The engines looked at: online and offline, gated or not, with and without
\* a rating, with the network and the Codex files there or not.
EngineEnvs ==
    [offline : BOOLEAN, gated : BOOLEAN,
     rating : {[given |-> FALSE, value |-> 0], [given |-> TRUE, value |-> 1],
               [given |-> TRUE, value |-> 4]},
     nas_host : {TRUE}, net_ok : BOOLEAN, nas_ok : {TRUE}, cloud_ok : {TRUE},
     tailscale : {"ok"}, codex_dir : {TRUE}, git : {"ok"}, docker : {FALSE},
     codex_files : {"all", "missing"}]

\* ledger.append(layer, event_type, data) as the engine calls it.
EngineArgs(layer, type, data) ==
    [layer |-> layer, event_type |-> type, data |-> data, proof |-> NoProof]

\* The entry an earlier run left last in the ledger.
EarlierLine ==
    EntryLine(NewEntry(EngineArgs("meta", "engine_end", "{ok:true}"),
                       [prev_global |-> EmptyStr, prev_layer |-> EngineNoHash]))

\* The ledger files an engine starts on: none, an empty one, one with an
\* entry of an earlier run, and files with a line that is no entry; the last
\* line with or without its newline.
EngineFiles ==
    {[exists |-> FALSE, lines |-> <<>>, newline |-> TRUE],
     [exists |-> TRUE, lines |-> <<>>, newline |-> TRUE]}
    \cup [exists : {TRUE},
          lines : {<<EarlierLine>>, <<EarlierLine, OtherLine("blank")>>,
                   <<OtherLine("garbage")>>, <<OtherLine("scalar")>>},
          newline : BOOLEAN]

\* What print(json.dumps(run_report, indent=2)) writes: the run's metadata,
\* the layers, each with its result, the score, the ledger path.
ReportText ==
    <<"{", "ws", "k", "v", ",", "ws",
      "k", "{", "ws", "k", "{", "ws", "k", "v", "ws", "}", "ws", "}", ",", "ws",
      "k", "{", "ws", "k", "v", "ws", "}", ",", "ws",
      "k", "v", "ws", "}">>

\* What no engine action touches.
engineRest ==
    <<lock, pc, args, scanned, cache, ret, started, appended, edit,
      policy, report, rc, outcome, lpc, config, engine, iteration, attempt,
      outcomes, summary, events, alerts, exitCode, policySource, parsed, env>>

\* A verify() of the ledger before the engine is started.
EngineVerifyFirst ==
    /\ epc = "idle"
    /\ lastRead' = VerifyOver(fileExists, file, EngineNoHash)
    /\ epc' = "verified"
    /\ UNCHANGED <<fileExists, file, eofNewline, results, score, erc, stdout, engineRest>>

\* main up to ledger = UniversalLedger(ledger_path=args.ledger): __init__
\* indexes the file and raises on JSON that is not an object; the exception
\* ends the process with status 1.
EngineOpen ==
    /\ epc = "verified"
    /\ IF fileExists
          /\ IndexTail(file, 1, [raised |-> FALSE, prev_global |-> EmptyStr,
                                 prev_layer |-> EngineNoHash]).raised
       THEN epc' = "crashed" /\ erc' = 1
       ELSE epc' = "engine_start" /\ UNCHANGED erc
    /\ UNCHANGED <<fileExists, file, eofNewline, lastRead, results, score, stdout,
                   engineRest>>

\* ledger.append by the engine's one process: open, lock, scan, build, write;
\* an exception of the scan ends the process with status 1.
EngineAppend(layer, type, data, next) ==
    LET st == ScanTail(file, 1, [raised |-> FALSE, prev_global |-> EmptyStr,
                                 prev_layer |-> EngineNoHash])
    IN  /\ fileExists' = TRUE
        /\ IF st.raised
           THEN /\ epc' = "crashed"
                /\ erc' = 1
                /\ UNCHANGED <<file, eofNewline>>
           ELSE /\ file' = WriteAtEnd(file, eofNewline,
                              EntryLine(NewEntry(EngineArgs(layer, type, data),
                                 [prev_global |-> st.prev_global,
                                  prev_layer |-> st.prev_layer])))
                /\ eofNewline' = TRUE
                /\ epc' = next
                /\ UNCHANGED erc

\* ledger.append("meta", "engine_start", ...)
EngineStart ==
    /\ epc = "engine_start"
    /\ EngineAppend("meta", "engine_start", "{run_meta}", "physical")
    /\ UNCHANGED <<lastRead, results, score, stdout, engineRest>>

\* results[layer] = check_...(...); ledger.append(layer, type, result.to_dict())
EngineCheck(result, type, next) ==
    /\ epc = result.layer
    /\ results' = Append(results, result)
    /\ EngineAppend(result.layer, type, result.status, next)
    /\ UNCHANGED <<lastRead, score, stdout, engineRest>>

EnginePhysical == EngineCheck(CheckPhysical(env), "check", "digital")
EngineDigital == EngineCheck(CheckDigital(env), "check", "codex")
EngineCodex == EngineCheck(CheckCodexIntegrity(env), "check", "cognitive")
EngineCognitive == EngineCheck(CheckCognitive(env.rating), "checkpoint", "collaborative")
EngineCollaborative == EngineCheck(CheckCollaborative(env), "node_check", "meta")

\* check_meta: the status verify() gives the ledger as it is now.
CheckMeta(rep) ==
    [layer |-> "meta", status |-> IF rep.ok THEN "INTACT" ELSE "CORRUPTED", tcp |-> FALSE]

\* results["meta"] = check_meta(ledger); ledger.append("meta", "self_check", ...)
EngineMeta ==
    /\ epc = "meta"
    /\ LET rep == VerifyOver(fileExists, file, EngineNoHash)
       IN  /\ lastRead' = rep
           /\ IF rep.status = "raised"
              THEN /\ epc' = "crashed"
                   /\ erc' = 1
                   /\ UNCHANGED <<fileExists, file, eofNewline, results>>
              ELSE /\ results' = Append(results, CheckMeta(rep))
                   /\ EngineAppend("meta", "self_check", CheckMeta(rep).status,
                                   "sovereign_score")
    /\ UNCHANGED <<score, stdout, engineRest>>

\* score = compute_sovereign_score(results); ledger.append("meta", "sovereign_score", score)
EngineScore ==
    /\ epc = "sovereign_score"
    /\ score' = ComputeSovereignScore(results)
    /\ EngineAppend("meta", "sovereign_score", "{score}", "engine_end")
    /\ UNCHANGED <<lastRead, results, stdout, engineRest>>

\* The report is written, ledger.append("meta", "engine_end", ...), and the
\* report is printed.
EngineEnd ==
    /\ epc = "engine_end"
    /\ EngineAppend("meta", "engine_end", "{ok:true}", "gate")
    /\ stdout' = IF epc' = "gate" THEN ReportText ELSE stdout
    /\ UNCHANGED <<lastRead, results, score, engineRest>>

GateFailStatuses == {"DEGRADED", "OVERLOADED", "CORRUPTED"}

\* if args.gated: ... return 1; return 0
EngineExit ==
    /\ epc = "gate"
    /\ erc' = IF env.gated /\ \E i \in DOMAIN results : results[i].status \in GateFailStatuses
              THEN 1 ELSE 0
    /\ epc' = "exited"
    /\ UNCHANGED <<fileExists, file, eofNewline, lastRead, results, score, stdout,
                   engineRest>>

InitEngine ==
    /\ \E f \in EngineFiles :
          /\ fileExists = f.exists
          /\ file = f.lines
          /\ eofNewline = f.newline
    /\ InitWriters
    /\ policy = Defaults
    /\ report = NoReport
    /\ rc = 0
    /\ outcome = NoOutcome
    /\ lpc = "idle"
    /\ config = NoConfig
    /\ engine = <<>>
    /\ iteration = 0
    /\ attempt = 0
    /\ outcomes = <<>>
    /\ summary = <<>>
    /\ events = <<>>
    /\ alerts = {}
    /\ exitCode = -1
    /\ policySource = NoSource
    /\ env \in EngineEnvs
    /\ epc = "idle"
    /\ results = <<>>
    /\ score = NoScore
    /\ erc = -1
    /\ stdout = <<>>
    /\ parsed = NoParse

NextEngine ==
    \/ EngineVerifyFirst
    \/ EngineOpen
    \/ EngineStart
    \/ EnginePhysical
    \/ EngineDigital
    \/ EngineCodex
    \/ EngineCognitive
    \/ EngineCollaborative
    \/ EngineMeta
    \/ EngineScore
    \/ EngineEnd
    \/ EngineExit

SpecEngine == InitEngine /\ [][NextEngine]_vars

\* The nine appends of a run: where main is before each, and the layer and
\* type of the event.
EngineEvents ==
    <<[at |-> "engine_start", layer |-> "meta", type |-> "engine_start"],
      [at |-> "physical", layer |-> "physical", type |-> "check"],
      [at |-> "digital", layer |-> "digital", type |-> "check"],
      [at |-> "codex", layer |-> "codex", type |-> "check"],
      [at |-> "cognitive", layer |-> "cognitive", type |-> "checkpoint"],
      [at |-> "collaborative", layer |-> "collaborative", type |-> "node_check"],
      [at |-> "meta", layer |-> "meta", type |-> "self_check"],
      [at |-> "sovereign_score", layer |-> "meta", type |-> "sovereign_score"],
      [at |-> "engine_end", layer |-> "meta", type |-> "engine_end"]>>

\* The step adds one line to the file, an event of the layer and type.
AppendsEvent(ev) ==
    /\ Len(file') = Len(file) + 1
    /\ SubSeq(file', 1, Len(file)) = file
    /\ Last(file').kind = "obj"
    /\ Last(file').layer = ev.layer
    /\ Last(file').type = ev.type

\* C27: a run appends one event per step in the order engine_start, physical,
\* digital, codex, cognitive, collaborative, meta self_check, sovereign_score,
\* engine_end and nothing else; the self check runs verify() after the five
\* other results are appended and before its own, and finds INTACT when the
\* ledger verified before the run.
C27_NineEventsSelfCheckIntact ==
    [][/\ \A k \in DOMAIN EngineEvents :
             (epc = EngineEvents[k].at /\ epc' # epc) => AppendsEvent(EngineEvents[k])
       /\ (epc \notin {EngineEvents[k].at : k \in DOMAIN EngineEvents}) => file' = file
       /\ (epc = "meta" /\ epc' # epc)
             => /\ [i \in DOMAIN results |-> results[i].layer]
                      = <<"physical", "digital", "codex", "cognitive", "collaborative">>
                /\ (lastRead.status = "returned" /\ lastRead.ok)
                      => /\ Len(results') = 6
                         /\ results'[6].status = "INTACT"]_vars

====
